---- MODULE Spec2Model ----
(***************************************************************************)
(* State-machine model of the resilience layer of deciresearch-v5:         *)
(*   - the intelligence RateLimitManager (src/intelligence/rate-limits.ts) *)
(*   - the shared RateLimitManager and the LLM RateLimiter                 *)
(*     (src/shared/rate-limits.ts)                                         *)
(*   - the circuit breaker (src/shared/db.ts, intelligence/error-recovery) *)
(* Time is counted in milliseconds, as Date.now() does.  Every async       *)
(* handler is cut at its await points: one action per run-to-completion    *)
(* segment, with the caller's position kept in a pc variable.              *)
(***************************************************************************)
EXTENDS Integers, Sequences, FiniteSets, TLC

VARIABLES
    now,             \* Date.now()
    ticks,           \* number of clock advances taken so far
    \* ---- intelligence RateLimitManager
    callers,         \* the tasks that use the intelligence manager
    scenario,        \* the resource or flow the tasks of this run exercise
    callTimestamps,  \* Map<string, number[]>
    ipc,             \* position of each task inside a waitFor*Slot call
    ictx,            \* the locals of the call each task is inside
    admitted,        \* history: admission times per resource
    lastReturn,      \* history: the last waitFor*Slot call that returned
    \* ---- shared RateLimitManager and the mention handlers that use it
    sharedTimestamps, \* callTimestamps: Map<string, number[]>
    lastAlertTime,   \* Map<string, number>, 0 when the key is absent
    tokenUsage,      \* tokenUsage.get('openai:tokens') || 0
    spc,             \* position of each task inside a mention handler
    swake,           \* expiry of the timer each sleeping task waits for
    lastWarned,      \* history: time of the last warning logged per key
    warnedTwice,     \* history: keys warned about twice within one minute
    lastCheck,       \* history: the capacity check made last at this instant
    slotReturn,      \* history: the last return of waitForAnthropicSlot
    \* ---- LLM RateLimiter
    callCount,
    resetTime,
    circuitOpen,
    lpc,             \* position of each task inside waitForSlot
    lwake,           \* expiry of the timer each sleeping task waits for
    slotTimes,       \* history: the instants at which waitForSlot returned
    \* ---- circuit breaker
    state,           \* 'closed' | 'open' | 'half-open'
    failureCount,
    lastFailureTime,
    bpc,             \* "running" while the task's fn() is in flight
    outcome,         \* how the last execute call of each task ended
    event,           \* history: the operation that took the last step
    consecutive,     \* history: failed calls since the last successful one
    trialOps,        \* history: operations started since the breaker went half-open
    prevState,       \* history: the breaker's state before the last step
    \* ---- retry handlers (RetryHandler of shared/db.ts, ErrorRecovery)
    impl,            \* which of the two classes runs
    policy,          \* the RetryConfig in force
    nItems,          \* items.length of the executeBatch call
    concurrency,     \* the concurrency argument of executeBatch
    bstate,          \* position of executeBatch: "idle", "chunk" or "returned"
    chunkStart,      \* i of the chunk loop (1-based index of its first item)
    succeeded,
    failed,
    rpc,             \* position of each item's executeWithRetry call
    attempt,         \* its loop variable
    delay,           \* its local `delay`
    pending,         \* attempts whose operation was started and has not settled
    result,          \* how each executeWithRetry call ended
    outcomes,        \* history: how each attempt of each call ended
    nominal,         \* history: the last delay of each call with its jitter taken as zero
    decreased,       \* history: calls whose jitter-free delay was smaller than the one before
    overMax,         \* history: calls that slept longer than maxDelayMs
    capped,          \* history: calls with a delay that maxDelayMs cut short
    underMin,        \* history: calls that slept less than the 100 ms floor
    \* ---- account discovery (AccountDiscovery, DiscoveryScheduler)
    runners,         \* the triggers that may start a cycle (cron tick, triggerNow)
    oracle,          \* what categorizeAccountLLM can answer in this behaviour
    candidates,      \* this.candidates: handle -> DiscoveryCandidate
    dpc,             \* position of each trigger's runDiscovery
    mentionCounts,   \* the map findMentionedAccounts returned to each cycle
    scored,          \* the local `scored` of scoreAccountCandidates
    cyc,             \* history: the number of the cycle each trigger runs
    cyclesStarted,   \* history: cycles started so far
    waited,          \* whether time has passed since the last cycle started
    aboveIn,         \* history: the cycles that scored each handle at or above the threshold
    keptIn,          \* history: the cycles whose returned list held each handle
    approval,        \* history: the same for approveAccount, called by an operator or by
                     \* autoApproveConfirmed
    rejection,       \* history: per handle, "none", "fresh" (rejectAccount hit it and no
                     \* cycle has started since) or "settled" (a cycle started since)
    opCalls,         \* history: operator calls so far
    autoApproved,    \* history: handles approved by the last autoApproveConfirmed
    threw,           \* history: per cycle, up to its prune step: an iteration of the
                     \* scoring loop threw
    \* ---- consensus detection (ConsensusSignals)
    storedTweets,    \* what vectorDB.getTweetsByTopic returns, in retrieval order
    credibility,     \* what getAccountCredibility returns for each handle
    signals,         \* the result of the last detectConsensus call
    lookback,        \* timeWindowHours of the last detectConsensus call (0: no call yet)
    \* ---- the publisher (postTweet)
    posters,         \* the postTweet calls that may be in flight at once
    postedAt,        \* column postedAt of the rows of table tweets, in insertion order
    ppc,             \* position of each postTweet call
    presult,         \* what each caller's last postTweet call returned
    postCalls,       \* number of postTweet calls made so far
    \* ---- the scheduled loops (listeners and schedulers)
    poller,          \* the component of this run
    isRunning,       \* its isRunning flag
    loopPc,          \* position of each loop (or registered cron task) of the component
    batch,           \* TwitterListener: index of the batch each loop is at
    restarted,       \* history: loops that started an iteration after one that threw
    \* ---- narrative shifts (NarrativeShifts)
    snapshots,       \* the rows of table narrative_snapshots of the topic, in insertion order
    compared,        \* timestamp of the snapshot the last detectShift compared with (0: none)
    shiftCalls       \* number of detectShift calls made so far

intelVars == <<callers, scenario, callTimestamps, ipc, ictx, admitted, lastReturn>>
sharedVars == <<sharedTimestamps, lastAlertTime, tokenUsage, spc, swake,
                lastWarned, warnedTwice, lastCheck, slotReturn>>
limiterVars == <<callCount, resetTime, circuitOpen, lpc, lwake, slotTimes>>
breakerVars == <<state, failureCount, lastFailureTime, bpc, outcome, event,
                 consecutive, trialOps, prevState>>
retryVars == <<impl, policy, nItems, concurrency, bstate, chunkStart, succeeded, failed,
               rpc, attempt, delay, pending, result, outcomes, nominal, decreased,
               overMax, capped, underMin>>
discoveryVars == <<runners, oracle, candidates, dpc, mentionCounts, scored, cyc, cyclesStarted,
                   waited, aboveIn, keptIn, approval, rejection, opCalls,
                   autoApproved, threw>>
rateVars == <<intelVars, sharedVars>>
consensusVars == <<storedTweets, credibility, signals, lookback>>
posterVars == <<posters, postedAt, ppc, presult, postCalls>>
loopVars == <<poller, isRunning, loopPc, batch, restarted>>
shiftVars == <<snapshots, compared, shiftCalls>>
vars == <<now, ticks, rateVars, limiterVars, breakerVars, retryVars, discoveryVars,
          consensusVars, posterVars, loopVars, shiftVars>>

\* what the actions of one component leave alone
nonRateVars == <<limiterVars, breakerVars, retryVars, discoveryVars, consensusVars,
                 posterVars, loopVars, shiftVars>>
nonLimiterVars == <<rateVars, breakerVars, retryVars, discoveryVars, consensusVars,
                    posterVars, loopVars, shiftVars>>
nonBreakerVars == <<rateVars, limiterVars, retryVars, discoveryVars, consensusVars,
                    posterVars, loopVars, shiftVars>>
nonRetryVars == <<rateVars, limiterVars, breakerVars, discoveryVars, consensusVars,
                  posterVars, loopVars, shiftVars>>
nonDiscoveryVars == <<rateVars, limiterVars, breakerVars, retryVars, consensusVars,
                      posterVars, loopVars, shiftVars>>
nonConsensusVars == <<rateVars, limiterVars, breakerVars, retryVars, discoveryVars,
                      posterVars, loopVars, shiftVars>>
nonShiftVars == <<rateVars, limiterVars, breakerVars, retryVars, discoveryVars,
                  posterVars, loopVars>>
nonLoopVars == <<rateVars, limiterVars, breakerVars, retryVars, discoveryVars,
                 consensusVars, posterVars, shiftVars>>
nonPosterVars == <<rateVars, limiterVars, breakerVars, retryVars, discoveryVars,
                   consensusVars, loopVars, shiftVars>>

---------------------------------------------------------------------------
(* Bounds of the model *)

\* number of concurrent tasks
NProcs == 2
\* number of clock advances explored
MaxTicks == 3
\* number of clock advances explored for the LLM RateLimiter
MaxLimiterTicks == 2
\* longest timestamp list the shared manager is let to grow (it never prunes)
MaxRecords == 4
\* largest token total explored
MaxTokens == 6

Procs == 1..NProcs

(* Program constants *)
MinuteMs == 60 * 1000
HourMs == 60 * 60 * 1000
\* the "100ms buffer" added to a per-minute wait
BufferMs == 100
\* Date.now() at construction: any instant later than one hour after 0
Epoch == 10 * HourMs

(* The configuration the intelligence manager is constructed with *)
TweetsPerHour == 2
OpenAICallsPerMinute == 2
AnthropicCallsPerMinute == 2
AnthropicCallsPerHour == 3

(* The configuration the shared manager is constructed with *)
RepliesPerHour == 3
SharedCallsPerMinute == 2
SharedCallsPerHour == 2
TokensPerMinute == 5

---------------------------------------------------------------------------
(* Array helpers *)

Range(s) == {s[i] : i \in DOMAIN s}

\* Math.min(...calls) of a non-empty array
MinOf(s) == CHOOSE x \in Range(s) : \A y \in Range(s) : x <= y

\* calls.filter(t => t > windowStart)
FilterAfter(calls, windowStart) == SelectSeq(calls, LAMBDA t : t > windowStart)

\* how many entries of a history lie in the window (at - windowMs, at]
CountIn(hist, at, windowMs) ==
    Cardinality({i \in DOMAIN hist : hist[i] > at - windowMs /\ hist[i] <= at})

---------------------------------------------------------------------------
(* The intelligence RateLimitManager *)

TwitterKey == "twitter:svc"
OpenAIKey == "openai:svc"
AnthropicMinKey == "anthropic:all:min"
AnthropicHourKey == "anthropic:all:hour"
IntelKeys == {TwitterKey, OpenAIKey, AnthropicMinKey, AnthropicHourKey}

Resources == {"twitter", "openai", "anthropic"}
\* flows of the shared manager: embedding calls and the mention handlers
Flows == {"tokens", "nominations", "questions"}
Scenarios == Resources \cup Flows

\* the windows configured for a resource: <<windowMs, limit>>
Windows(res) ==
    CASE res = "twitter" -> {<<HourMs, TweetsPerHour>>}
      [] res = "openai" -> {<<MinuteMs, OpenAICallsPerMinute>>}
      [] res = "anthropic" -> {<<MinuteMs, AnthropicCallsPerMinute>>,
                               <<HourMs, AnthropicCallsPerHour>>}

NoCtx == [calls |-> <<>>, callsMin |-> <<>>, callsHour |-> <<>>,
          now0 |-> 0, wake |-> 0, ageOut |-> 0]

NoReturn == [res |-> "none", start |-> 0, ret |-> 0, slept |-> FALSE, ageOut |-> 0]

\* History only: the instant by which every window of res that is full at
\* `at` has lost its oldest in-window admission (0 when no window is full).
AgeOutWindow(res, w, at) ==
    LET inwin == FilterAfter(admitted[res], at - w[1])
    IN IF Len(inwin) >= w[2] THEN MinOf(inwin) + w[1] ELSE 0

AgeOut(res, at) ==
    LET outs == {AgeOutWindow(res, w, at) : w \in Windows(res)}
    IN CHOOSE x \in outs : \A y \in outs : y <= x

\* The handlers of different resources read and write disjoint keys of
\* callTimestamps, so a run exercises the handlers of one resource (of the
\* intelligence manager) or of one flow (of the shared manager), any of them.
InitIntel(tasks, scenarios) ==
    /\ callers = tasks
    /\ scenario \in scenarios
    /\ callTimestamps = [k \in IntelKeys |-> <<>>]
    /\ ipc = [p \in Procs |-> "idle"]
    /\ ictx = [p \in Procs |-> NoCtx]
    /\ admitted = [r \in Resources |-> <<>>]
    /\ lastReturn = NoReturn

Admit(res) == admitted' = [admitted EXCEPT ![res] = Append(@, now)]

Returned(res, p, slept) ==
    lastReturn' = [res |-> res, start |-> ictx[p].now0, ret |-> now,
                   slept |-> slept, ageOut |-> ictx[p].ageOut]

\* checkTwitterLimit(service): no await inside, one atomic step
checkTwitterLimit(p) ==
    /\ p \in callers
    /\ scenario = "twitter"
    /\ ipc[p] = "idle"
    /\ LET windowStart == now - HourMs
           calls == FilterAfter(callTimestamps[TwitterKey], windowStart)
       IN IF Len(calls) >= TweetsPerHour
          THEN UNCHANGED <<callTimestamps, admitted>>
          ELSE /\ callTimestamps' = [callTimestamps EXCEPT ![TwitterKey] = Append(calls, now)]
               /\ Admit("twitter")
    /\ lastCheck' = [key |-> TwitterKey, windowMs |-> HourMs]
    /\ UNCHANGED <<now, ticks, callers, scenario, ipc, ictx, lastReturn,
                   sharedTimestamps, lastAlertTime, tokenUsage, spc, swake,
                   lastWarned, warnedTwice, slotReturn>>
    /\ UNCHANGED nonRateVars

\* waitForOpenAISlot(service), up to its await or its return
waitForOpenAISlot(p) ==
    /\ p \in callers
    /\ scenario = "openai"
    /\ ipc[p] = "idle"
    /\ LET windowStart == now - MinuteMs
           calls == FilterAfter(callTimestamps[OpenAIKey], windowStart)
           ctx == [NoCtx EXCEPT !.calls = calls, !.now0 = now,
                                !.ageOut = AgeOut("openai", now)]
       IN IF Len(calls) >= OpenAICallsPerMinute
          THEN LET waitMs == MinOf(calls) + MinuteMs - now + BufferMs
               IN /\ ipc' = [ipc EXCEPT ![p] = "openai_sleep"]
                  /\ ictx' = [ictx EXCEPT ![p] = [ctx EXCEPT !.wake = now + waitMs]]
                  /\ UNCHANGED <<callTimestamps, admitted, lastReturn>>
          ELSE /\ callTimestamps' = [callTimestamps EXCEPT ![OpenAIKey] = Append(calls, now)]
               /\ Admit("openai")
               /\ lastReturn' = [res |-> "openai", start |-> now, ret |-> now,
                                 slept |-> FALSE, ageOut |-> ctx.ageOut]
               /\ UNCHANGED <<ipc, ictx>>
    /\ UNCHANGED <<now, ticks, callers, scenario, sharedVars>>
    /\ UNCHANGED nonRateVars

\* waitForOpenAISlot after its sleep: calls.push(Date.now()); set(key, calls)
waitForOpenAISlotWake(p) ==
    /\ ipc[p] = "openai_sleep"
    /\ now >= ictx[p].wake
    /\ callTimestamps' = [callTimestamps EXCEPT ![OpenAIKey] = Append(ictx[p].calls, now)]
    /\ Admit("openai")
    /\ Returned("openai", p, TRUE)
    /\ ipc' = [ipc EXCEPT ![p] = "idle"]
    /\ ictx' = [ictx EXCEPT ![p] = NoCtx]
    /\ UNCHANGED <<now, ticks, callers, scenario, sharedVars>>
    /\ UNCHANGED nonRateVars

\* the tail of waitForAnthropicSlot (lines 119-124): record the call and return
AnthropicFinish(p, callsMin, callsHour, start, ageOut, slept) ==
    /\ callTimestamps' = [callTimestamps EXCEPT
                            ![AnthropicMinKey] = Append(callsMin, now),
                            ![AnthropicHourKey] = Append(callsHour, now)]
    /\ Admit("anthropic")
    /\ lastReturn' = [res |-> "anthropic", start |-> start, ret |-> now,
                      slept |-> slept, ageOut |-> ageOut]
    /\ ipc' = [ipc EXCEPT ![p] = "idle"]
    /\ ictx' = [ictx EXCEPT ![p] = NoCtx]

\* the hourly check of waitForAnthropicSlot (lines 108-117), reached with the
\* per-minute list callsMin; now0 is the `now` read when the call began
AnthropicHourCheck(p, ctx, callsMin, slept) ==
    IF Len(ctx.callsHour) >= AnthropicCallsPerHour
    THEN LET waitMs == MinOf(ctx.callsHour) + HourMs - ctx.now0
         IN /\ ipc' = [ipc EXCEPT ![p] = "anthropic_hour_sleep"]
            /\ ictx' = [ictx EXCEPT ![p] = [ctx EXCEPT !.callsMin = callsMin,
                                                       !.wake = now + waitMs]]
            /\ UNCHANGED <<callTimestamps, admitted, lastReturn>>
    ELSE AnthropicFinish(p, callsMin, ctx.callsHour, ctx.now0, ctx.ageOut, slept)

\* waitForAnthropicSlot(), up to its first await or its return
waitForAnthropicSlot(p) ==
    /\ p \in callers
    /\ scenario = "anthropic"
    /\ ipc[p] = "idle"
    /\ LET windowStart == now - MinuteMs
           hourStart == now - HourMs
           callsMin == FilterAfter(callTimestamps[AnthropicMinKey], windowStart)
           callsHour == FilterAfter(callTimestamps[AnthropicHourKey], hourStart)
           ctx == [NoCtx EXCEPT !.callsMin = callsMin, !.callsHour = callsHour,
                                !.now0 = now, !.ageOut = AgeOut("anthropic", now)]
       IN IF Len(callsMin) >= AnthropicCallsPerMinute
          THEN LET waitMs == MinOf(callsMin) + MinuteMs - now + BufferMs
               IN /\ ipc' = [ipc EXCEPT ![p] = "anthropic_min_sleep"]
                  /\ ictx' = [ictx EXCEPT ![p] = [ctx EXCEPT !.wake = now + waitMs]]
                  /\ UNCHANGED <<callTimestamps, admitted, lastReturn>>
          ELSE AnthropicHourCheck(p, ctx, callsMin, FALSE)
    /\ UNCHANGED <<now, ticks, callers, scenario, sharedVars>>
    /\ UNCHANGED nonRateVars

\* after the per-minute sleep: callsMin = [], then the hourly check
waitForAnthropicSlotMinWake(p) ==
    /\ ipc[p] = "anthropic_min_sleep"
    /\ now >= ictx[p].wake
    /\ AnthropicHourCheck(p, ictx[p], <<>>, TRUE)
    /\ UNCHANGED <<now, ticks, callers, scenario, sharedVars>>
    /\ UNCHANGED nonRateVars

\* after the hourly sleep: callsHour = [], then record and return
waitForAnthropicSlotHourWake(p) ==
    /\ ipc[p] = "anthropic_hour_sleep"
    /\ now >= ictx[p].wake
    /\ AnthropicFinish(p, ictx[p].callsMin, <<>>, ictx[p].now0, ictx[p].ageOut, TRUE)
    /\ UNCHANGED <<now, ticks, callers, scenario, sharedVars>>
    /\ UNCHANGED nonRateVars

NextIntel ==
    \/ \E p \in Procs : checkTwitterLimit(p)
    \/ \E p \in Procs : waitForOpenAISlot(p)
    \/ \E p \in Procs : waitForOpenAISlotWake(p)
    \/ \E p \in Procs : waitForAnthropicSlot(p)
    \/ \E p \in Procs : waitForAnthropicSlotMinWake(p)
    \/ \E p \in Procs : waitForAnthropicSlotHourWake(p)

---------------------------------------------------------------------------
(* The shared RateLimitManager (src/shared/rate-limits.ts) *)

RepliesKey == "twitter:replies"
SharedMinKey == "anthropic:calls:min"
SharedHourKey == "anthropic:calls:hour"
TokensKey == "openai:tokens"
SharedKeys == {RepliesKey, "openai:calls", SharedMinKey, SharedHourKey}
AlertKeys == SharedKeys \cup {TokensKey}

NoCheck == [key |-> "none", windowMs |-> 0]
NoSlot == [returned |-> FALSE, min |-> 0, hour |-> 0]

InitShared ==
    /\ sharedTimestamps = [k \in SharedKeys |-> <<>>]
    /\ lastAlertTime = [k \in AlertKeys |-> 0]
    /\ tokenUsage = 0
    /\ spc = [p \in Procs |-> "idle"]
    /\ swake = [p \in Procs |-> 0]
    /\ lastWarned = [k \in AlertKeys |-> 0]
    /\ warnedTwice = {}
    /\ lastCheck = NoCheck
    /\ slotReturn = NoSlot

\* shouldAlert(key): its return value, and the map it leaves
shouldAlert(key) == ~(now - lastAlertTime[key] > MinuteMs)

shouldAlertSets(key) ==
    IF now - lastAlertTime[key] > MinuteMs
    THEN [lastAlertTime EXCEPT ![key] = now]
    ELSE lastAlertTime

\* history: n more warnings are logged for key now
LogWarn(key, n) ==
    /\ lastWarned' = IF n = 0 THEN lastWarned ELSE [lastWarned EXCEPT ![key] = now]
    /\ warnedTwice' =
          IF n >= 2 \/ (n = 1 /\ now - lastWarned[key] < MinuteMs)
          THEN warnedTwice \cup {key}
          ELSE warnedTwice

\* checkLimit(key, limit, windowMs): its return value
checkLimitOk(key, limit, windowMs) ==
    Len(FilterAfter(sharedTimestamps[key], now - windowMs)) < limit

\* checkLimit(key, limit, windowMs): what it leaves behind; `more` counts the
\* warnings its caller logs for the key in the same step.  The filtered list
\* is a local of checkLimit: the map is not written.
checkLimit(key, limit, windowMs, more) ==
    LET ok == checkLimitOk(key, limit, windowMs)
        logged == IF ~ok /\ ~shouldAlert(key) THEN 1 ELSE 0
    IN /\ lastAlertTime' = IF ok THEN lastAlertTime ELSE shouldAlertSets(key)
       /\ LogWarn(key, logged + more)
       /\ lastCheck' = [key |-> key, windowMs |-> windowMs]

\* getWaitTime(key, windowMs)
getWaitTime(key, windowMs) ==
    LET calls == sharedTimestamps[key]
        wait == MinOf(calls) + windowMs - now + BufferMs
    IN IF Len(calls) = 0 THEN 0 ELSE IF wait > 0 THEN wait ELSE 0

\* recordCall(key) for every key of keys
recordCalls(keys) ==
    /\ \A k \in keys : Len(sharedTimestamps[k]) < MaxRecords
    /\ sharedTimestamps' = [k \in SharedKeys |->
                              IF k \in keys THEN Append(sharedTimestamps[k], now)
                                            ELSE sharedTimestamps[k]]

\* recordOpenAICall(estimatedTokens)
recordOpenAICall(p, estimatedTokens) ==
    /\ p \in callers
    /\ scenario = "tokens"
    /\ spc[p] = "idle"
    /\ tokenUsage + estimatedTokens <= MaxTokens
    /\ recordCalls({"openai:calls"})
    /\ tokenUsage' = tokenUsage + estimatedTokens
    /\ LET high == tokenUsage * 100 > 80 * TokensPerMinute
       IN /\ lastAlertTime' = IF high THEN shouldAlertSets(TokensKey) ELSE lastAlertTime
          /\ LogWarn(TokensKey, IF high /\ ~shouldAlert(TokensKey) THEN 1 ELSE 0)
    /\ UNCHANGED <<now, ticks, intelVars, spc, swake, lastCheck, slotReturn>>
    /\ UNCHANGED nonRateVars

\* history: waitForAnthropicSlot returns now
SlotReturns ==
    slotReturn' = [returned |-> TRUE,
                   min |-> Len(FilterAfter(sharedTimestamps[SharedMinKey], now - MinuteMs)),
                   hour |-> Len(FilterAfter(sharedTimestamps[SharedHourKey], now - HourMs))]

---------------------------------------------------------------------------
(* MentionHandler (src/intelligence/mention-handler.ts) over the shared manager *)

\* handleAccountNomination: await canReply()
handleAccountNomination(p) ==
    /\ p \in callers
    /\ scenario = "nominations"
    /\ spc[p] = "idle"
    /\ checkLimit(RepliesKey, RepliesPerHour, HourMs, 0)
    /\ spc' = [spc EXCEPT ![p] = IF checkLimitOk(RepliesKey, RepliesPerHour, HourMs)
                                 THEN "nomination_record" ELSE "idle"]
    /\ UNCHANGED <<now, ticks, intelVars, sharedTimestamps, tokenUsage, swake, slotReturn>>
    /\ UNCHANGED nonRateVars

\* handleAccountNomination: recordReply()
nominationRecordReply(p) ==
    /\ spc[p] = "nomination_record"
    /\ recordCalls({RepliesKey})
    /\ spc' = [spc EXCEPT ![p] = "idle"]
    /\ UNCHANGED <<now, ticks, intelVars, lastAlertTime, tokenUsage, swake,
                   lastWarned, warnedTwice, lastCheck, slotReturn>>
    /\ UNCHANGED nonRateVars

\* handleQuestion / handleAnalysisRequest: await canReply()
handleQuestion(p) ==
    /\ p \in callers
    /\ scenario = "questions"
    /\ spc[p] = "idle"
    /\ checkLimit(RepliesKey, RepliesPerHour, HourMs, 0)
    /\ spc' = [spc EXCEPT ![p] = IF checkLimitOk(RepliesKey, RepliesPerHour, HourMs)
                                 THEN "slot_minute" ELSE "idle"]
    /\ UNCHANGED <<now, ticks, intelVars, sharedTimestamps, tokenUsage, swake, slotReturn>>
    /\ UNCHANGED nonRateVars

\* waitForAnthropicSlot (shared): the per-minute check and, when it fails, the
\* start of sleep(getWaitTime(...))
sharedSlotMinuteCheck(p) ==
    /\ spc[p] = "slot_minute"
    /\ checkLimit(SharedMinKey, SharedCallsPerMinute, MinuteMs, 0)
    /\ IF checkLimitOk(SharedMinKey, SharedCallsPerMinute, MinuteMs)
       THEN /\ spc' = [spc EXCEPT ![p] = "slot_hour"]
            /\ UNCHANGED swake
       ELSE /\ spc' = [spc EXCEPT ![p] = "slot_minute_sleep"]
            /\ swake' = [swake EXCEPT ![p] = now + getWaitTime(SharedMinKey, MinuteMs)]
    /\ UNCHANGED <<now, ticks, intelVars, sharedTimestamps, tokenUsage, slotReturn>>
    /\ UNCHANGED nonRateVars

\* waitForAnthropicSlot (shared): the hourly check; when it fails the caller
\* logs its own warning and sleeps, else the call returns
sharedSlotHourCheck(p) ==
    LET ok == checkLimitOk(SharedHourKey, SharedCallsPerHour, HourMs)
    IN /\ checkLimit(SharedHourKey, SharedCallsPerHour, HourMs, IF ok THEN 0 ELSE 1)
       /\ IF ok
          THEN /\ spc' = [spc EXCEPT ![p] = "reply"]
               /\ swake' = [swake EXCEPT ![p] = 0]
               /\ SlotReturns
          ELSE /\ spc' = [spc EXCEPT ![p] = "slot_hour_sleep"]
               /\ swake' = [swake EXCEPT ![p] = now + getWaitTime(SharedHourKey, HourMs)]
               /\ UNCHANGED slotReturn
       /\ UNCHANGED <<now, ticks, intelVars, sharedTimestamps, tokenUsage>>

\* the hourly check reached without a per-minute sleep
sharedSlotHour(p) ==
    /\ spc[p] = "slot_hour"
    /\ sharedSlotHourCheck(p)
    /\ UNCHANGED nonRateVars

\* the per-minute sleep ends; the hourly check follows in the same step
sharedSlotMinuteWake(p) ==
    /\ spc[p] = "slot_minute_sleep"
    /\ now >= swake[p]
    /\ sharedSlotHourCheck(p)
    /\ UNCHANGED nonRateVars

\* the hourly sleep ends and waitForAnthropicSlot returns
sharedSlotHourWake(p) ==
    /\ spc[p] = "slot_hour_sleep"
    /\ now >= swake[p]
    /\ spc' = [spc EXCEPT ![p] = "reply"]
    /\ swake' = [swake EXCEPT ![p] = 0]
    /\ SlotReturns
    /\ UNCHANGED <<now, ticks, intelVars, sharedTimestamps, lastAlertTime, tokenUsage,
                   lastWarned, warnedTwice, lastCheck>>
    /\ UNCHANGED nonRateVars

\* replyToMention settles; on success recordReply() and recordAnthropicCall()
replySettles(p, success) ==
    /\ spc[p] = "reply"
    /\ IF success
       THEN recordCalls({RepliesKey, SharedMinKey, SharedHourKey})
       ELSE UNCHANGED sharedTimestamps
    /\ spc' = [spc EXCEPT ![p] = "idle"]
    /\ UNCHANGED <<now, ticks, intelVars, lastAlertTime, tokenUsage, swake,
                   lastWarned, warnedTwice, lastCheck, slotReturn>>
    /\ UNCHANGED nonRateVars

NextShared ==
    \/ \E p \in Procs, n \in {1, 2} : recordOpenAICall(p, n)
    \/ \E p \in Procs : handleAccountNomination(p)
    \/ \E p \in Procs : nominationRecordReply(p)
    \/ \E p \in Procs : handleQuestion(p)
    \/ \E p \in Procs : sharedSlotMinuteCheck(p)
    \/ \E p \in Procs : sharedSlotHour(p)
    \/ \E p \in Procs : sharedSlotMinuteWake(p)
    \/ \E p \in Procs : sharedSlotHourWake(p)
    \/ \E p \in Procs, success \in BOOLEAN : replySettles(p, success)

---------------------------------------------------------------------------
(* The LLM RateLimiter (src/shared/rate-limits.ts, class RateLimiter) *)

MAX_CALLS_PER_HOUR == 10
CircuitSleepMs == 60000

InitLimiter ==
    /\ callCount = 0
    /\ resetTime = Epoch + HourMs
    /\ circuitOpen = FALSE
    /\ lpc = [p \in Procs |-> "idle"]
    /\ lwake = [p \in Procs |-> 0]
    /\ slotTimes = <<>>

\* waitForSlot from `if (Date.now() > this.resetTime)` on (lines 331-345):
\* the hourly reset, then either the sleep until resetTime or the return
limiterCount(p) ==
    LET expired == now > resetTime
        count == IF expired THEN 0 ELSE callCount
        reset == IF expired THEN now + HourMs ELSE resetTime
    IN IF count >= MAX_CALLS_PER_HOUR
       THEN /\ lpc' = [lpc EXCEPT ![p] = "limit_sleep"]
            /\ lwake' = [lwake EXCEPT ![p] = now + (reset - now)]
            /\ callCount' = count
            /\ resetTime' = reset
            /\ UNCHANGED slotTimes
       ELSE /\ lpc' = [lpc EXCEPT ![p] = "idle"]
            /\ lwake' = [lwake EXCEPT ![p] = 0]
            /\ callCount' = count + 1
            /\ resetTime' = reset
            /\ slotTimes' = Append(slotTimes, now)

\* waitForSlot(), up to its first await or its return
waitForSlot(p) ==
    /\ lpc[p] = "idle"
    /\ IF circuitOpen
       THEN /\ lpc' = [lpc EXCEPT ![p] = "circuit_sleep"]
            /\ lwake' = [lwake EXCEPT ![p] = now + CircuitSleepMs]
            /\ UNCHANGED <<callCount, resetTime, slotTimes>>
       ELSE limiterCount(p)
    /\ UNCHANGED <<now, ticks, circuitOpen, nonLimiterVars>>

\* after sleep(60000): circuitOpen = false, then the count
waitForSlotCircuitWake(p) ==
    /\ lpc[p] = "circuit_sleep"
    /\ now >= lwake[p]
    /\ circuitOpen' = FALSE
    /\ limiterCount(p)
    /\ UNCHANGED <<now, ticks, nonLimiterVars>>

\* after sleep(waitTime): callCount = 0, a new hour, callCount++ and return
waitForSlotLimitWake(p) ==
    /\ lpc[p] = "limit_sleep"
    /\ now >= lwake[p]
    /\ callCount' = 1
    /\ resetTime' = now + HourMs
    /\ slotTimes' = Append(slotTimes, now)
    /\ lpc' = [lpc EXCEPT ![p] = "idle"]
    /\ lwake' = [lwake EXCEPT ![p] = 0]
    /\ UNCHANGED <<now, ticks, circuitOpen, nonLimiterVars>>

\* openCircuit()
openCircuit ==
    /\ ~circuitOpen
    /\ circuitOpen' = TRUE
    /\ UNCHANGED <<now, ticks, callCount, resetTime, lpc, lwake, slotTimes, nonLimiterVars>>

LimiterDeltas == {HourMs \div 2, HourMs \div 2 + 1000}

LimiterTick ==
    /\ ticks < MaxLimiterTicks
    /\ \E t \in {now + d : d \in LimiterDeltas} \cup {lwake[p] : p \in Procs} :
          /\ t > now
          /\ now' = t
    /\ ticks' = ticks + 1
    /\ UNCHANGED <<limiterVars, nonLimiterVars>>

NextLimiter ==
    \/ LimiterTick
    \/ \E p \in Procs : waitForSlot(p)
    \/ \E p \in Procs : waitForSlotCircuitWake(p)
    \/ \E p \in Procs : waitForSlotLimitWake(p)
    \/ openCircuit

---------------------------------------------------------------------------
(* The circuit breaker: class CircuitBreaker of src/shared/db.ts and the      *)
(* closure of createCircuitBreaker in src/intelligence/error-recovery.ts,     *)
(* which are the same code.                                                   *)

\* constructor(failureThreshold, resetTimeoutMs = 60000)
failureThreshold == 3
resetTimeoutMs == 60000

NoEvent == [op |-> "none", proc |-> 0]

InitBreaker ==
    /\ state = "closed"
    /\ failureCount = 0
    /\ lastFailureTime = 0
    /\ bpc = [p \in Procs |-> "idle"]
    /\ outcome = [p \in Procs |-> "none"]
    /\ event = NoEvent
    /\ consecutive = 0
    /\ trialOps = 0
    /\ prevState = "closed"

\* a breaker whose open check ignores resetTimeoutMs (variant used to test C9)
ResetElapsedNoTimeout == now - lastFailureTime >= 0

\* timeSinceLastFailure > this.resetTimeoutMs
ResetElapsed == now - lastFailureTime > resetTimeoutMs

\* execute(fn, name) up to `await fn()`: the open check, then fn is started
execute(p) ==
    /\ bpc[p] = "idle"
    /\ event' = [op |-> "execute", proc |-> p]
    /\ prevState' = state
    /\ IF state = "open" /\ ~ResetElapsed
       THEN \* return null
            /\ outcome' = [outcome EXCEPT ![p] = "null"]
            /\ UNCHANGED <<state, bpc, trialOps>>
       ELSE /\ state' = IF state = "open" THEN "half-open" ELSE state
            /\ bpc' = [bpc EXCEPT ![p] = "running"]
            /\ outcome' = [outcome EXCEPT ![p] = "none"]
            /\ trialOps' = IF state = "open" THEN 1
                           ELSE IF state = "half-open" THEN trialOps + 1
                           ELSE trialOps
    /\ UNCHANGED <<now, ticks, failureCount, lastFailureTime, consecutive, nonBreakerVars>>

\* a breaker that any success closes (variant used to test C28)
fnResolvesCloses(p) ==
    /\ bpc[p] = "running"
    /\ event' = [op |-> "resolve", proc |-> p]
    /\ prevState' = state
    /\ bpc' = [bpc EXCEPT ![p] = "idle"]
    /\ outcome' = [outcome EXCEPT ![p] = "result"]
    /\ state' = "closed"
    /\ failureCount' = 0
    /\ consecutive' = 0
    /\ trialOps' = 0
    /\ UNCHANGED <<now, ticks, lastFailureTime, nonBreakerVars>>

\* fn() resolves: the breaker closes if it was half-open; the result is returned
fnResolves(p) ==
    /\ bpc[p] = "running"
    /\ event' = [op |-> "resolve", proc |-> p]
    /\ prevState' = state
    /\ bpc' = [bpc EXCEPT ![p] = "idle"]
    /\ outcome' = [outcome EXCEPT ![p] = "result"]
    /\ IF state = "half-open"
       THEN /\ state' = "closed"
            /\ failureCount' = 0
       ELSE UNCHANGED <<state, failureCount>>
    /\ consecutive' = 0
    /\ trialOps' = IF state = "half-open" THEN 0 ELSE trialOps
    /\ UNCHANGED <<now, ticks, lastFailureTime, nonBreakerVars>>

\* a breaker that counts a failure without refreshing lastFailureTime
\* (variant used to test C11)
fnRejectsStale(p) ==
    /\ bpc[p] = "running"
    /\ event' = [op |-> "reject", proc |-> p]
    /\ prevState' = state
    /\ bpc' = [bpc EXCEPT ![p] = "idle"]
    /\ outcome' = [outcome EXCEPT ![p] = "threw"]
    /\ failureCount' = failureCount + 1
    /\ state' = IF failureCount + 1 >= failureThreshold THEN "open" ELSE state
    /\ consecutive' = consecutive + 1
    /\ trialOps' = IF state = "half-open" /\ state' # "half-open" THEN 0 ELSE trialOps
    /\ UNCHANGED <<now, ticks, lastFailureTime, nonBreakerVars>>

\* fn() rejects: the failure is counted, the breaker opens at the threshold,
\* the error is rethrown
fnRejects(p) ==
    /\ bpc[p] = "running"
    /\ event' = [op |-> "reject", proc |-> p]
    /\ prevState' = state
    /\ bpc' = [bpc EXCEPT ![p] = "idle"]
    /\ outcome' = [outcome EXCEPT ![p] = "threw"]
    /\ failureCount' = failureCount + 1
    /\ lastFailureTime' = now
    /\ state' = IF failureCount + 1 >= failureThreshold THEN "open" ELSE state
    /\ consecutive' = consecutive + 1
    /\ trialOps' = IF state = "half-open" /\ state' # "half-open" THEN 0 ELSE trialOps
    /\ UNCHANGED <<now, ticks, nonBreakerVars>>

\* a reset() that closes the breaker and keeps the failure count (variant used
\* to test C40)
breakerResetKeepsCount ==
    /\ event' = [op |-> "reset", proc |-> 0]
    /\ prevState' = state
    /\ state' = "closed"
    /\ consecutive' = 0
    /\ trialOps' = 0
    /\ UNCHANGED <<now, ticks, failureCount, lastFailureTime, bpc, outcome, nonBreakerVars>>

\* reset()
breakerReset ==
    /\ event' = [op |-> "reset", proc |-> 0]
    /\ prevState' = state
    /\ state' = "closed"
    /\ failureCount' = 0
    /\ consecutive' = 0
    /\ trialOps' = 0
    /\ UNCHANGED <<now, ticks, lastFailureTime, bpc, outcome, nonBreakerVars>>

BreakerDeltas == {1, resetTimeoutMs, resetTimeoutMs + 1}

BreakerTick ==
    /\ ticks < MaxTicks
    /\ \E d \in BreakerDeltas : now' = now + d
    /\ ticks' = ticks + 1
    /\ event' = [op |-> "tick", proc |-> 0]
    /\ prevState' = state
    /\ UNCHANGED <<state, failureCount, lastFailureTime, bpc, outcome, consecutive,
                   trialOps, nonBreakerVars>>

NextBreaker ==
    \/ BreakerTick
    \/ \E p \in Procs : execute(p)
    \/ \E p \in Procs : fnResolves(p)
    \/ \E p \in Procs : fnRejects(p)
    \/ breakerReset

---------------------------------------------------------------------------
(* The retry handlers: class RetryHandler of src/shared/db.ts and class       *)
(* ErrorRecovery of src/intelligence/error-recovery.ts.  The operation's     *)
(* duration is the environment's choice: an attempt of RetryHandler ends by   *)
(* the operation resolving, rejecting, or the timeout timer firing first.     *)

MaxAttemptsBound == 3
MaxItems == 3
MaxConcurrency == 2

Items == 1..MaxItems
Impls == {"RetryHandler", "ErrorRecovery"}

\* the RetryConfig values tried (timeoutMs is the race's timer, see opTimesOut)
Policies ==
    [maxAttempts : 0..MaxAttemptsBound, initialDelayMs : {0, 100, 1000},
     maxDelayMs : {50, 500, 1500}, backoffMultiplier : {2, 3}, jitterPercent : {10, 100}]

\* DEFAULT_CONFIG
DefaultPolicy ==
    [maxAttempts |-> 3, initialDelayMs |-> 1000, maxDelayMs |-> 30000,
     backoffMultiplier |-> 2, jitterPercent |-> 10]

\* the policy of the batches explored: DEFAULT_CONFIG with one retry
BatchPolicy == [DefaultPolicy EXCEPT !.maxAttempts = 2]

\* Math.random() * 100 of RetryHandler, a value of [0, 100)
JitterMs == {0, 50, 99}

\* (Math.random() - 0.5) of ErrorRecovery in hundredths, a value of [-0.5, 0.5)
JitterHundredths == {-50, 0, 40}

\* Math.max(delay + jitter, 100)
MinDelayMs == 100

Min(a, b) == IF a <= b THEN a ELSE b
Max(a, b) == IF a >= b THEN a ELSE b

\* a handler that adds the jitter after capping the delay (variant used to
\* test C13)
ActualDelayJitterLast(d, j) ==
    IF impl = "RetryHandler"
    THEN Min(d, policy.maxDelayMs) + j
    ELSE Min(Max(d, MinDelayMs), policy.maxDelayMs) + j

\* the delay slept after a failed attempt when the jitter term is j
ActualDelay(d, j) ==
    IF impl = "RetryHandler"
    THEN Min(d + j, policy.maxDelayMs)
    ELSE Min(Max(d + j, MinDelayMs), policy.maxDelayMs)

\* the jitter terms Math.random() can produce for the local delay d
Jitters(d) ==
    IF impl = "RetryHandler"
    THEN JitterMs
    ELSE {(r * policy.jitterPercent * d) \div 10000 : r \in JitterHundredths}

\* the local `delay` after the sleep
NextDelay(d) ==
    IF impl = "RetryHandler"
    THEN d * policy.backoffMultiplier
    ELSE Min(d * policy.backoffMultiplier, policy.maxDelayMs)

InitRetry(impls, policies, counts, widths) ==
    /\ impl \in impls
    /\ policy \in policies
    /\ nItems \in counts
    /\ concurrency \in IF impl = "RetryHandler" THEN widths ELSE {1}
    /\ bstate = "idle"
    /\ chunkStart = 0
    /\ succeeded = 0
    /\ failed = 0
    /\ rpc = [i \in Items |-> "idle"]
    /\ attempt = [i \in Items |-> 0]
    /\ delay = [i \in Items |-> 0]
    /\ pending = [i \in Items |-> {}]
    /\ result = [i \in Items |-> "none"]
    /\ outcomes = [i \in Items |-> <<>>]
    /\ nominal = [i \in Items |-> 0]
    /\ decreased = {}
    /\ overMax = {}
    /\ capped = {}
    /\ underMin = {}

\* the handlers as constructed, with no call made
RetryUnused == InitRetry({"RetryHandler"}, {DefaultPolicy}, {0}, {1})

sleepVars == <<nominal, decreased, overMax, capped, underMin>>

\* a loop that runs one attempt too many (variant used to test C12)
LoopContinuesOnceMore(a) == a <= policy.maxAttempts + 1

\* the condition of `for (...; attempt <= maxAttempts; ...)`
LoopContinues(a) == a <= policy.maxAttempts

\* a batch that tests `!result`, which is also true of the undefined that a
\* successful Promise<void> yields (variant used to test C14)
CountsAsFailedFalsy(res) == res \in {"null", "result"}

\* `result === null` of the batch: which counter an ended call bumps
CountsAsFailed(res) == res = "null"

\* the items of the chunk that starts at index first
ChunkAt(first) == {i \in Items : i >= first /\ i < first + concurrency /\ i <= nItems}

\* the operations that the loop test with attempt a starts
Started(a) == IF LoopContinues(a) THEN {a} ELSE {}

\* executeWithRetry of item i reaches the loop test with attempt a: either fn()
\* is called and awaited, or the loop ends, null is returned and counted;
\* `settled` are the operations that settle in the same step
NextAttempt(i, a, settled) ==
    /\ attempt' = [attempt EXCEPT ![i] = a]
    /\ pending' = [pending EXCEPT ![i] = (@ \ settled) \cup Started(a)]
    /\ IF LoopContinues(a)
       THEN /\ rpc' = [rpc EXCEPT ![i] = "attempt"]
            /\ UNCHANGED <<result, succeeded, failed>>
       ELSE /\ rpc' = [rpc EXCEPT ![i] = "done"]
            /\ result' = [result EXCEPT ![i] = "null"]
            /\ failed' = IF CountsAsFailed("null") THEN failed + 1 ELSE failed
            /\ succeeded' = IF CountsAsFailed("null") THEN succeeded ELSE succeeded + 1

\* chunk.map(...): executeWithRetry starts for every item of the chunk, each
\* up to its first await
StartChunk(first) ==
    LET chunk == ChunkAt(first)
        runs == LoopContinues(1)
        ended == IF runs THEN 0 ELSE Cardinality(chunk)
    IN /\ chunkStart' = first
       /\ rpc' = [i \in Items |-> IF i \in chunk
                                  THEN (IF runs THEN "attempt" ELSE "done") ELSE rpc[i]]
       /\ attempt' = [i \in Items |-> IF i \in chunk THEN 1 ELSE attempt[i]]
       /\ delay' = [i \in Items |-> IF i \in chunk THEN policy.initialDelayMs ELSE delay[i]]
       /\ pending' = [i \in Items |-> IF i \in chunk /\ runs THEN {1} ELSE pending[i]]
       /\ result' = [i \in Items |-> IF i \in chunk /\ ~runs THEN "null" ELSE result[i]]
       /\ failed' = IF CountsAsFailed("null") THEN failed + ended ELSE failed
       /\ succeeded' = IF CountsAsFailed("null") THEN succeeded ELSE succeeded + ended

\* executeBatch(items, fn, concurrency) up to its first await
executeBatch ==
    /\ bstate = "idle"
    /\ IF nItems = 0
       THEN /\ bstate' = "returned"
            /\ UNCHANGED <<chunkStart, rpc, attempt, delay, pending, result, failed, succeeded>>
       ELSE /\ bstate' = "chunk"
            /\ StartChunk(1)
    /\ UNCHANGED <<impl, policy, nItems, concurrency, outcomes, sleepVars>>
    /\ UNCHANGED <<now, ticks, nonRetryVars>>

\* await Promise.all(promises) resolves: the next chunk starts, or the counts
\* are returned
batchNextChunk ==
    /\ bstate = "chunk"
    /\ \A i \in ChunkAt(chunkStart) : rpc[i] = "done"
    /\ IF chunkStart + concurrency <= nItems
       THEN /\ StartChunk(chunkStart + concurrency)
            /\ UNCHANGED bstate
       ELSE /\ bstate' = "returned"
            /\ UNCHANGED <<chunkStart, rpc, attempt, delay, pending, result, failed, succeeded>>
    /\ UNCHANGED <<impl, policy, nItems, concurrency, outcomes, sleepVars>>
    /\ UNCHANGED <<now, ticks, nonRetryVars>>

\* history: call i sleeps ActualDelay(delay[i], j)
Sleeps(i, j) ==
    /\ nominal' = [nominal EXCEPT ![i] = ActualDelay(delay[i], 0)]
    /\ decreased' = IF attempt[i] > 1 /\ ActualDelay(delay[i], 0) < nominal[i]
                    THEN decreased \cup {i} ELSE decreased
    /\ overMax' = IF ActualDelay(delay[i], j) > policy.maxDelayMs
                  THEN overMax \cup {i} ELSE overMax
    /\ capped' = IF delay[i] + j > policy.maxDelayMs THEN capped \cup {i} ELSE capped
    /\ underMin' = IF ActualDelay(delay[i], j) < MinDelayMs
                   THEN underMin \cup {i} ELSE underMin

\* the catch block of attempt attempt[i]: sleep before the next attempt, or
\* log the final error and leave the loop
attemptFailed(i, settled) ==
    IF attempt[i] < policy.maxAttempts
    THEN /\ \E j \in Jitters(delay[i]) : Sleeps(i, j)
         /\ rpc' = [rpc EXCEPT ![i] = "sleep"]
         /\ pending' = [pending EXCEPT ![i] = @ \ settled]
         /\ UNCHANGED <<attempt, result, succeeded, failed>>
    ELSE /\ NextAttempt(i, attempt[i] + 1, settled)
         /\ UNCHANGED sleepVars

\* the operation of the current attempt resolves: its result is returned and
\* the batch counts the item
opResolves(i) ==
    /\ rpc[i] = "attempt"
    /\ outcomes' = [outcomes EXCEPT ![i] = Append(@, "ok")]
    /\ pending' = [pending EXCEPT ![i] = @ \ {attempt[i]}]
    /\ rpc' = [rpc EXCEPT ![i] = "done"]
    /\ result' = [result EXCEPT ![i] = "result"]
    /\ failed' = IF CountsAsFailed("result") THEN failed + 1 ELSE failed
    /\ succeeded' = IF CountsAsFailed("result") THEN succeeded ELSE succeeded + 1
    /\ UNCHANGED <<impl, policy, nItems, concurrency, bstate, chunkStart, attempt, delay,
                   sleepVars>>
    /\ UNCHANGED <<now, ticks, nonRetryVars>>

\* the operation of the current attempt rejects (or fn throws)
opRejects(i) ==
    /\ rpc[i] = "attempt"
    /\ outcomes' = [outcomes EXCEPT ![i] = Append(@, "error")]
    /\ attemptFailed(i, {attempt[i]})
    /\ UNCHANGED <<impl, policy, nItems, concurrency, bstate, chunkStart, delay>>
    /\ UNCHANGED <<now, ticks, nonRetryVars>>

\* a race without a timer: nothing ends the attempt of an operation that does
\* not settle (variant used to test C25)
opNeverTimesOut(i) ==
    /\ impl = "RetryHandler"
    /\ rpc[i] = "attempt"
    /\ UNCHANGED vars

\* RetryHandler only: the timer of Promise.race fires first; the operation
\* stays in flight
opTimesOut(i) ==
    /\ impl = "RetryHandler"
    /\ rpc[i] = "attempt"
    /\ outcomes' = [outcomes EXCEPT ![i] = Append(@, "timeout")]
    /\ attemptFailed(i, {})
    /\ UNCHANGED <<impl, policy, nItems, concurrency, bstate, chunkStart, delay>>
    /\ UNCHANGED <<now, ticks, nonRetryVars>>

\* the sleep ends: the delay grows and the next attempt starts
retryWake(i) ==
    /\ rpc[i] = "sleep"
    /\ delay' = [delay EXCEPT ![i] = NextDelay(@)]
    /\ NextAttempt(i, attempt[i] + 1, {})
    /\ UNCHANGED <<impl, policy, nItems, concurrency, bstate, chunkStart, outcomes, sleepVars>>
    /\ UNCHANGED <<now, ticks, nonRetryVars>>

\* an operation that lost the race against its timeout settles
opSettlesLate(i, k) ==
    /\ k \in pending[i]
    /\ ~(rpc[i] = "attempt" /\ k = attempt[i])
    /\ pending' = [pending EXCEPT ![i] = @ \ {k}]
    /\ UNCHANGED <<impl, policy, nItems, concurrency, bstate, chunkStart, succeeded, failed,
                   rpc, attempt, delay, result, outcomes, sleepVars>>
    /\ UNCHANGED <<now, ticks, nonRetryVars>>

NextRetry ==
    \/ executeBatch
    \/ batchNextChunk
    \/ \E i \in Items : opResolves(i)
    \/ \E i \in Items : opRejects(i)
    \/ \E i \in Items : opTimesOut(i)
    \/ \E i \in Items : retryWake(i)
    \/ \E i \in Items : \E k \in 1..(MaxAttemptsBound + 1) : opSettlesLate(i, k)

---------------------------------------------------------------------------
(* Account discovery: class AccountDiscovery and DiscoveryScheduler           *)
(* (src/intelligence/discovery-scheduler.ts).  Handles are the accounts that  *)
(* tracked accounts mention and that are not tracked themselves.              *)

\* DISCOVERY_CONFIG
scoreThreshold == 50
maxNewAccountsPerCycle == 1
confirmationRunsNeeded == 2
decayDays == 1

\* DISCOVERY_CONFIG.decayDays * 24 * 60 * 60 * 1000
pruneThreshold == decayDays * 24 * 60 * 60 * 1000

\* discovery cycles in one behaviour
MaxCycles == 3

\* operator calls (approveAccount, rejectAccount) in one behaviour
MaxOperatorCalls == 1

Handles == {"alice", "bob"}
Runners == {1, 2}

Categories == {"TECHNICAL", "NARRATIVE", "SMART_MONEY", "MARKET_STRUCTURE"}

\* what client.v2.userByUsername can return: user.data of two accounts
Famous == [followers |-> 200000, verified |-> TRUE, ageDays |-> 400, likes |-> 0]
Edge == [followers |-> 60000, verified |-> FALSE, ageDays |-> 10, likes |-> 0]
\* what userByUsername answers for each handle, when it answers
Profile(h) == IF h = "alice" THEN Famous ELSE Edge

\* how often a handle can be mentioned in the tweets read (0: not mentioned)
MentionCountValues == {0, 1, 10}

\* what categorizeAccountLLM can return: a label of the fixed set or null
OracleAnswers == {"TECHNICAL", "null"}

\* what the classification request can end with: the text of the message, or
\* "throws" when userTimeline or anthropic.messages.create rejects
OracleReplies == {" technical ", "DEGEN", "throws"}

\* text.trim().toUpperCase(), on the texts tried
TrimUpper(text) == IF text = " technical " THEN "TECHNICAL" ELSE text

\* a classification that returns whatever label the oracle answers (variant
\* used to test C31)
categorizeAccountLLMAnyLabel(reply) ==
    IF reply # "throws" THEN TrimUpper(reply) ELSE "null"

\* categorizeAccountLLM: the label if it is one of the fixed set, else null
categorizeAccountLLM(reply) ==
    IF reply # "throws" /\ TrimUpper(reply) \in Categories THEN TrimUpper(reply)
    ELSE "null"

\* the score of scoreAccountCandidates
MentionScore(mentions) == Min(30, mentions * 3)

FollowerScore(followers) ==
    IF followers > 100000 THEN 25
    ELSE IF followers > 50000 THEN 20
    ELSE IF followers > 10000 THEN 15
    ELSE IF followers > 5000 THEN 10
    ELSE 0

AgeScore(accountAge) ==
    IF accountAge > 365 THEN 15
    ELSE IF accountAge > 180 THEN 10
    ELSE IF accountAge > 30 THEN 5
    ELSE 0

EngagementScore(engagement) ==
    IF engagement > 1000000 THEN 15
    ELSE IF engagement > 100000 THEN 10
    ELSE IF engagement > 10000 THEN 5
    ELSE 0

Score(mentions, user) ==
    MentionScore(mentions) + FollowerScore(user.followers)
    + (IF user.verified THEN 15 ELSE 0)
    + AgeScore(user.ageDays) + EngagementScore(user.likes)

\* a handle that this.candidates does not hold
NoCandidate == [status |-> "absent", confirmationCount |-> 0, lastSeen |-> 0,
                category |-> "none"]

Stored(h) == candidates[h].status # "absent"

InitDiscovery(triggers, answers) ==
    /\ runners = triggers
    /\ oracle = answers
    /\ candidates = [h \in Handles |-> NoCandidate]
    /\ dpc = [r \in Runners |-> "idle"]
    /\ mentionCounts = [r \in Runners |-> [h \in Handles |-> 0]]
    /\ scored = [r \in Runners |-> <<>>]
    /\ cyc = [r \in Runners |-> 0]
    /\ cyclesStarted = 0
    /\ waited = FALSE
    /\ aboveIn = [h \in Handles |-> {}]
    /\ keptIn = [h \in Handles |-> {}]
    /\ approval = [h \in Handles |-> "none"]
    /\ rejection = [h \in Handles |-> "none"]
    /\ opCalls = 0
    /\ autoApproved = {}
    /\ threw = [r \in Runners |-> FALSE]

\* discovery as constructed, with no trigger
DiscoveryUnused == InitDiscovery({}, {"null"})

\* From the merge loop to the end of autoApproveConfirmed a cycle awaits only
\* promises that are already settled: no timer or I/O callback, operator call
\* or other cycle runs in between.
InMicrotasks == \E r \in Runners : dpc[r] \in {"prune", "approve"}

historyVars == <<aboveIn, keptIn, approval, rejection, opCalls, autoApproved, threw>>

\* DiscoveryScheduler.runDiscovery up to its first await
runDiscovery(r) ==
    /\ r \in runners
    /\ dpc[r] = "idle"
    /\ ~InMicrotasks
    /\ cyclesStarted < MaxCycles
    /\ dpc' = [dpc EXCEPT ![r] = "gather"]
    /\ cyclesStarted' = cyclesStarted + 1
    /\ waited' = FALSE
    /\ cyc' = [cyc EXCEPT ![r] = cyclesStarted + 1]
    /\ autoApproved' = {}
    /\ rejection' = [h \in Handles |->
          IF rejection[h] = "fresh" THEN "settled" ELSE rejection[h]]
    /\ approval' = [h \in Handles |->
          IF approval[h] = "fresh" THEN "settled" ELSE approval[h]]
    /\ UNCHANGED <<runners, oracle, candidates, mentionCounts, scored, aboveIn,
                   keptIn, opCalls, threw>>
    /\ UNCHANGED <<now, ticks, nonDiscoveryVars>>

\* getAccountsByCategory throws: discoverAccountsFromNetwork logs and returns
\* [] without merging or pruning; runDiscovery goes on to autoApproveConfirmed
discoveryFails(r) ==
    /\ dpc[r] = "gather"
    /\ ~InMicrotasks
    /\ dpc' = [dpc EXCEPT ![r] = "approve"]
    /\ UNCHANGED <<runners, oracle, candidates, mentionCounts, scored, cyc, cyclesStarted, waited,
                   historyVars>>
    /\ UNCHANGED <<now, ticks, nonDiscoveryVars>>

\* findMentionedAccounts: the mentions counted, none for an approved candidate
findMentionedAccounts(r) ==
    /\ dpc[r] = "gather"
    /\ ~InMicrotasks
    /\ \E counts \in [Handles -> MentionCountValues] :
          /\ \A h \in Handles : candidates[h].status = "approved" => counts[h] = 0
          /\ mentionCounts' = [mentionCounts EXCEPT ![r] = counts]
    /\ scored' = [scored EXCEPT ![r] = <<>>]
    /\ dpc' = [dpc EXCEPT ![r] = "score"]
    /\ UNCHANGED <<runners, oracle, candidates, cyc, cyclesStarted, waited, historyVars>>
    /\ UNCHANGED <<now, ticks, nonDiscoveryVars>>

\* a loop that an iteration's exception ends: the entries not yet looked at
\* are dropped (variant used to test C32)
RemainingAfterAbort(counts, h, fetched) ==
    IF fetched = "throws" THEN [g \in Handles |-> 0] ELSE [counts EXCEPT ![h] = 0]

\* the entries the loop still has to look at after the iteration of h: the
\* try/catch is inside the loop, so an exception ends the iteration only
RemainingAfter(counts, h, fetched) == [counts EXCEPT ![h] = 0]

\* what client.v2.userByUsername ends with
FetchOutcomes == {"data", "nodata", "throws"}

\* one iteration of the loop of scoreAccountCandidates; the entry of h is
\* taken off mentionCounts[r] once it has been looked at
scoreCandidate(r, h) ==
    /\ dpc[r] = "score"
    /\ ~InMicrotasks
    /\ mentionCounts[r][h] > 0
    /\ IF candidates[h].status = "rejected"
       THEN /\ UNCHANGED scored
            /\ mentionCounts' = [mentionCounts EXCEPT ![r][h] = 0]
            /\ UNCHANGED threw
       ELSE \E fetched \in FetchOutcomes, answer \in oracle :
               /\ mentionCounts' = [mentionCounts EXCEPT ![r] =
                                       RemainingAfter(@, h, fetched)]
               /\ threw' = [threw EXCEPT ![r] = @ \/ fetched = "throws"]
               /\ IF fetched # "data"
                  THEN \* no user.data, or the fetch threw
                       UNCHANGED scored
                  ELSE IF Score(mentionCounts[r][h], Profile(h)) >= scoreThreshold
                  THEN scored' = [scored EXCEPT ![r] =
                           Append(@, [handle |-> h,
                                      score |-> Score(mentionCounts[r][h], Profile(h)),
                                      category |->
                                          IF categorizeAccountLLM(answer) = "null"
                                          THEN "NARRATIVE"
                                          ELSE categorizeAccountLLM(answer),
                                      reply |-> answer,
                                      lastSeen |-> now])]
                  ELSE UNCHANGED scored
    /\ aboveIn' = [aboveIn EXCEPT ![h] =
          IF scored'[r] # scored[r] THEN @ \cup {cyc[r]} ELSE @]
    /\ UNCHANGED <<runners, oracle, candidates, dpc, cyc, cyclesStarted, waited, keptIn,
                   approval, rejection, opCalls, autoApproved>>
    /\ UNCHANGED <<now, ticks, nonDiscoveryVars>>

\* Array.prototype.sort((a, b) => b.score - a.score): stable, descending
RECURSIVE InsertByScore(_, _)
InsertByScore(c, sorted) ==
    IF sorted = <<>> THEN <<c>>
    ELSE IF Head(sorted).score >= c.score
    THEN <<Head(sorted)>> \o InsertByScore(c, Tail(sorted))
    ELSE <<c>> \o sorted

RECURSIVE SortByScore(_)
SortByScore(list) ==
    IF list = <<>> THEN <<>>
    ELSE InsertByScore(list[Len(list)], SortByScore(SubSeq(list, 1, Len(list) - 1)))

\* what scoreAccountCandidates returns: sorted, then slice(0, maxNewAccountsPerCycle)
TopCandidates(list) == SubSeq(SortByScore(list), 1, Min(Len(list), maxNewAccountsPerCycle))

KeptHandles(r) == {TopCandidates(scored[r])[k].handle : k \in 1..Len(TopCandidates(scored[r]))}

KeptEntry(r, h) ==
    LET kept == TopCandidates(scored[r])
    IN kept[CHOOSE k \in 1..Len(kept) : kept[k].handle = h]

\* a merge that keeps the count of a known candidate (variant used to test C20)
MergedCountNoIncrement(h) == IF Stored(h) THEN candidates[h].confirmationCount ELSE 1

\* the confirmationCount the merge loop stores for h
MergedCount(h) == IF Stored(h) THEN candidates[h].confirmationCount + 1 ELSE 1

\* the loop is over: scoreAccountCandidates returns and the merge loop of
\* discoverAccountsFromNetwork stores each returned candidate
mergeCandidates(r) ==
    /\ dpc[r] = "score"
    /\ ~InMicrotasks
    /\ \A h \in Handles : mentionCounts[r][h] = 0
    /\ candidates' = [h \in Handles |->
          IF h \in KeptHandles(r)
          THEN [status |-> "suggested",
                confirmationCount |-> MergedCount(h),
                lastSeen |-> KeptEntry(r, h).lastSeen,
                category |-> KeptEntry(r, h).category]
          ELSE candidates[h]]
    /\ keptIn' = [h \in Handles |->
          IF h \in KeptHandles(r) THEN keptIn[h] \cup {cyc[r]} ELSE keptIn[h]]
    /\ scored' = [scored EXCEPT ![r] = <<>>]
    /\ dpc' = [dpc EXCEPT ![r] = "prune"]
    /\ UNCHANGED <<runners, oracle, mentionCounts, cyc, cyclesStarted, waited, aboveIn,
                   approval, rejection, opCalls, autoApproved, threw>>
    /\ UNCHANGED <<now, ticks, nonDiscoveryVars>>

\* a test that also prunes at exactly the window (variant used to test C19)
PruneDueInclusive(c) == now - c.lastSeen >= pruneThreshold

\* the test of pruneCandidates
PruneDue(c) == now - c.lastSeen > pruneThreshold

pruneCandidates(r) ==
    /\ dpc[r] = "prune"
    /\ candidates' = [h \in Handles |->
          IF Stored(h) /\ PruneDue(candidates[h])
          THEN [candidates[h] EXCEPT !.status = "pruned"]
          ELSE candidates[h]]
    /\ dpc' = [dpc EXCEPT ![r] = "approve"]
    /\ threw' = [threw EXCEPT ![r] = FALSE]
    /\ UNCHANGED <<runners, oracle, mentionCounts, scored, cyc, cyclesStarted, waited, aboveIn,
                   keptIn, approval, rejection, opCalls, autoApproved>>
    /\ UNCHANGED <<now, ticks, nonDiscoveryVars>>

\* a test that one sighting satisfies (variant used to test C17)
ConfirmedOnFirstSight(c) == c.status = "suggested" /\ c.confirmationCount >= 1

\* the test of autoApproveConfirmed
Confirmed(c) == c.status = "suggested" /\ c.confirmationCount >= confirmationRunsNeeded

autoApproveConfirmed(r) ==
    /\ dpc[r] = "approve"
    /\ candidates' = [h \in Handles |->
          IF Stored(h) /\ Confirmed(candidates[h])
          THEN [candidates[h] EXCEPT !.status = "approved"]
          ELSE candidates[h]]
    /\ autoApproved' = {h \in Handles : Stored(h) /\ Confirmed(candidates[h])}
    /\ approval' = [h \in Handles |->
          IF Stored(h) /\ Confirmed(candidates[h]) THEN "fresh" ELSE approval[h]]
    /\ dpc' = [dpc EXCEPT ![r] = "idle"]
    /\ UNCHANGED <<runners, oracle, mentionCounts, scored, cyc, cyclesStarted, waited,
                   aboveIn, keptIn, rejection, opCalls, threw>>
    /\ UNCHANGED <<now, ticks, nonDiscoveryVars>>

\* operator calls, through DiscoveryScheduler.approveCandidateForAddition and
\* rejectCandidate; with no stored candidate both leave the map as it is
approveAccount(h) ==
    /\ ~InMicrotasks
    /\ opCalls < MaxOperatorCalls
    /\ Stored(h)
    /\ candidates' = [candidates EXCEPT ![h].status = "approved"]
    /\ rejection' = [rejection EXCEPT ![h] = "none"]
    /\ approval' = [approval EXCEPT ![h] = "fresh"]
    /\ opCalls' = opCalls + 1
    /\ UNCHANGED <<runners, oracle, dpc, mentionCounts, scored, cyc, cyclesStarted, waited,
                   aboveIn, keptIn, autoApproved, threw>>
    /\ UNCHANGED <<now, ticks, nonDiscoveryVars>>

rejectAccount(h) ==
    /\ ~InMicrotasks
    /\ opCalls < MaxOperatorCalls
    /\ Stored(h)
    /\ candidates' = [candidates EXCEPT ![h].status = "rejected"]
    /\ rejection' = [rejection EXCEPT ![h] = "fresh"]
    /\ approval' = [approval EXCEPT ![h] = "none"]
    /\ opCalls' = opCalls + 1
    /\ UNCHANGED <<runners, oracle, dpc, mentionCounts, scored, cyc, cyclesStarted, waited,
                   aboveIn, keptIn, autoApproved, threw>>
    /\ UNCHANGED <<now, ticks, nonDiscoveryVars>>

\* time passes between two cycles, once; a cycle lasts far less than the
\* decay window and its own duration is left out
DiscoveryDeltas == {pruneThreshold, pruneThreshold + 1}

DiscoveryTick ==
    /\ \A r \in Runners : dpc[r] = "idle"
    /\ ~waited
    /\ \E d \in DiscoveryDeltas : now' = now + d
    /\ waited' = TRUE
    /\ UNCHANGED <<runners, oracle, candidates, dpc, mentionCounts, scored, cyc, cyclesStarted,
                   historyVars>>
    /\ UNCHANGED <<ticks, nonDiscoveryVars>>

NextDiscovery ==
    \/ \E r \in Runners :
          \/ runDiscovery(r)
          \/ discoveryFails(r)
          \/ findMentionedAccounts(r)
          \/ mergeCandidates(r)
          \/ pruneCandidates(r)
          \/ autoApproveConfirmed(r)
    \/ \E r \in Runners, h \in Handles : scoreCandidate(r, h)
    \/ \E h \in Handles : approveAccount(h) \/ rejectAccount(h)
    \/ DiscoveryTick

---------------------------------------------------------------------------
(* Consensus detection: class ConsensusSignals.  detectConsensus is a       *)
(* function of the tweets the store returns, the credibility of their        *)
(* accounts, the clock and timeWindowHours.                                  *)

\* `if (data.accounts.length < 5) continue`
MinConsensusAccounts == 5

\* `if (avgCredibility >= 85) confidence = 'HIGH'`
HighCredibility == 85

\* `else if (avgCredibility >= 70) confidence = 'MEDIUM'`
MediumCredibility == 70

\* `return 50; // Default if not found`
DefaultCredibility == 50

\* the accounts with tweets in the store, in the order the store returns them
ConsensusAccounts == <<"a1", "a2", "a3", "a4", "a5", "a6">>

ConsensusHandles == {ConsensusAccounts[k] : k \in DOMAIN ConsensusAccounts}

Themes == {"l2", "defi"}

\* what one account has tweeted: nothing, one tweet, two tweets (the second on
\* two themes), or one tweet that is exactly one hour old
PostingKinds == {"none", "once", "twice", "stale"}

TweetsOfKind(h, kind) ==
    CASE kind = "none" -> <<>>
      [] kind = "once" ->
            <<[handle |-> h, timestamp |-> Epoch - 30 * MinuteMs, topics |-> <<"l2">>]>>
      [] kind = "twice" ->
            <<[handle |-> h, timestamp |-> Epoch - 40 * MinuteMs, topics |-> <<"l2">>],
              [handle |-> h, timestamp |-> Epoch - 20 * MinuteMs,
               topics |-> <<"l2", "defi">>]>>
      [] kind = "stale" ->
            <<[handle |-> h, timestamp |-> Epoch - HourMs, topics |-> <<"l2">>]>>

\* the tweets of the first n accounts
RECURSIVE TweetsFor(_, _)
TweetsFor(posting, n) ==
    IF n = 0 THEN <<>>
    ELSE TweetsFor(posting, n - 1)
            \o TweetsOfKind(ConsensusAccounts[n], posting[ConsensusAccounts[n]])

\* the credibility scores tried: every account at 80, at 85, unknown to the
\* store (50), and one account at 100 among accounts at 82
CredibilityProfiles ==
    {[h \in ConsensusHandles |-> 80],
     [h \in ConsensusHandles |-> 85],
     [h \in ConsensusHandles |-> DefaultCredibility],
     [h \in ConsensusHandles |-> IF h = "a1" THEN 100 ELSE 82]}

\* timeWindowHours of the calls made
LookbackHours == {1, 2}

InitConsensus(postings, profiles) ==
    /\ \E posting \in postings :
          storedTweets = TweetsFor(posting, Len(ConsensusAccounts))
    /\ credibility \in profiles
    /\ signals = <<>>
    /\ lookback = 0

\* an empty store, and no call
ConsensusUnused ==
    InitConsensus({[h \in ConsensusHandles |-> "none"]},
                  {[h \in ConsensusHandles |-> DefaultCredibility]})

\* tweets.filter(t => t.timestamp > cutoff)
RecentTweets(tweets, cutoff) == SelectSeq(tweets, LAMBDA t : t.timestamp > cutoff)

\* accounts.includes(handle) that is never true (variant used to test C21)
IncludesNever(accounts, handle) == FALSE

\* accounts.includes(handle)
Includes(accounts, handle) == \E k \in DOMAIN accounts : accounts[k] = handle

\* the keys of accountMap, in insertion order
RECURSIVE AccountKeys(_)
AccountKeys(tweets) ==
    IF tweets = <<>> THEN <<>>
    ELSE LET before == AccountKeys(SubSeq(tweets, 1, Len(tweets) - 1))
             handle == tweets[Len(tweets)].handle
         IN IF Includes(before, handle) THEN before ELSE Append(before, handle)

\* accountMap.get(handle)
TweetsOfAccount(tweets, handle) == SelectSeq(tweets, LAMBDA t : t.handle = handle)

\* the position of theme's entry in narrativeMap (0: no entry)
EntryOf(map, theme) ==
    IF \E k \in DOMAIN map : map[k].theme = theme
    THEN CHOOSE k \in DOMAIN map : map[k].theme = theme
    ELSE 0

\* the body of `for (const theme of tweet.topics || [])`
AddMention(map, tweet, theme, accountCredibility) ==
    LET withEntry ==
            IF EntryOf(map, theme) = 0
            THEN Append(map, [theme |-> theme, accounts |-> <<>>, credibilities |-> <<>>,
                              tweets |-> <<>>, firstTime |-> tweet.timestamp,
                              lastTime |-> tweet.timestamp])
            ELSE map
        k == EntryOf(withEntry, theme)
        entry == withEntry[k]
        known == Includes(entry.accounts, tweet.handle)
    IN [withEntry EXCEPT ![k] =
           [accounts |-> IF known THEN entry.accounts
                         ELSE Append(entry.accounts, tweet.handle),
            credibilities |-> IF known THEN entry.credibilities
                              ELSE Append(entry.credibilities, accountCredibility),
            tweets |-> Append(entry.tweets, tweet),
            firstTime |-> entry.firstTime,
            lastTime |-> Max(entry.lastTime, tweet.timestamp),
            theme |-> theme]]

RECURSIVE AddThemes(_, _, _, _)
AddThemes(map, tweet, topics, accountCredibility) ==
    IF topics = <<>> THEN map
    ELSE AddThemes(AddMention(map, tweet, Head(topics), accountCredibility),
                   tweet, Tail(topics), accountCredibility)

\* `for (const tweet of tweets)` of one account
RECURSIVE AddTweets(_, _, _)
AddTweets(map, tweets, accountCredibility) ==
    IF tweets = <<>> THEN map
    ELSE AddTweets(AddThemes(map, Head(tweets), Head(tweets).topics, accountCredibility),
                   Tail(tweets), accountCredibility)

\* `for (const [handle, tweets] of accountMap.entries())`
RECURSIVE NarrativeMap(_, _, _)
NarrativeMap(map, recent, handles) ==
    IF handles = <<>> THEN map
    ELSE NarrativeMap(AddTweets(map, TweetsOfAccount(recent, Head(handles)),
                                credibility[Head(handles)]),
                      recent, Tail(handles))

RECURSIVE SumOf(_)
SumOf(numbers) == IF numbers = <<>> THEN 0 ELSE Head(numbers) + SumOf(Tail(numbers))

\* the confidence of an average credibility of total / count
Confidence(total, count) ==
    IF total >= HighCredibility * count THEN "HIGH"
    ELSE IF total >= MediumCredibility * count THEN "MEDIUM"
    ELSE "LOW"

\* data.tweets.filter(t => t.timestamp <= midpoint).length, with
\* midpoint = data.firstTime + (data.lastTime - data.firstTime) / 2
FirstHalf(data) ==
    Cardinality({k \in DOMAIN data.tweets :
                    2 * data.tweets[k].timestamp <= data.firstTime + data.lastTime})

\* data.tweets.filter(t => t.timestamp > midpoint).length
SecondHalf(data) ==
    Cardinality({k \in DOMAIN data.tweets :
                    2 * data.tweets[k].timestamp > data.firstTime + data.lastTime})

\* secondHalf > firstHalf * 1.2: increasing; secondHalf < firstHalf * 0.8:
\* decreasing; else stable
Momentum(firstHalf, secondHalf) ==
    IF 5 * secondHalf > 6 * firstHalf THEN "increasing"
    ELSE IF 5 * secondHalf < 4 * firstHalf THEN "decreasing"
    ELSE "stable"

\* the signal built from one entry of narrativeMap; avgCredibility is kept as
\* the sum of the credibilities over accountCount
SignalOf(data) ==
    [narrative |-> data.theme,
     accountsAgreeing |-> data.accounts,
     accountCount |-> Len(data.accounts),
     credibilitySum |-> SumOf(data.credibilities),
     confidence |-> Confidence(SumOf(data.credibilities), Len(data.credibilities)),
     firstMentioned |-> data.firstTime,
     lastMentioned |-> data.lastTime,
     momentum |-> Momentum(FirstHalf(data), SecondHalf(data))]

\* `for (const [narrative, data] of narrativeMap.entries())`
RECURSIVE SignalsOf(_)
SignalsOf(map) ==
    IF map = <<>> THEN <<>>
    ELSE IF Len(Head(map).accounts) < MinConsensusAccounts
    THEN SignalsOf(Tail(map))
    ELSE <<SignalOf(Head(map))>> \o SignalsOf(Tail(map))

\* signals.sort((a, b) => b.accountCount - a.accountCount)
RECURSIVE InsertByCount(_, _)
InsertByCount(signal, sorted) ==
    IF sorted = <<>> THEN <<signal>>
    ELSE IF Head(sorted).accountCount >= signal.accountCount
    THEN <<Head(sorted)>> \o InsertByCount(signal, Tail(sorted))
    ELSE <<signal>> \o sorted

RECURSIVE SortByCount(_)
SortByCount(list) ==
    IF list = <<>> THEN <<>>
    ELSE InsertByCount(list[Len(list)], SortByCount(SubSeq(list, 1, Len(list) - 1)))

\* what detectConsensus returns when the store answers
Consensus(tweets, timeWindowHours) ==
    LET recentTweets == RecentTweets(tweets, now - timeWindowHours * HourMs)
    IN IF recentTweets = <<>> THEN <<>>
       ELSE SortByCount(SignalsOf(NarrativeMap(<<>>, recentTweets,
                                               AccountKeys(recentTweets))))

detectConsensus(timeWindowHours) ==
    /\ lookback' = timeWindowHours
    /\ signals' = Consensus(storedTweets, timeWindowHours)
    /\ UNCHANGED <<storedTweets, credibility>>
    /\ UNCHANGED <<now, ticks, nonConsensusVars>>

\* vectorDB.getTweetsByTopic throws: the catch block returns []
detectConsensusFails(timeWindowHours) ==
    /\ lookback' = timeWindowHours
    /\ signals' = <<>>
    /\ UNCHANGED <<storedTweets, credibility>>
    /\ UNCHANGED <<now, ticks, nonConsensusVars>>

NextConsensus ==
    \/ \E hours \in LookbackHours : detectConsensus(hours)
    \/ \E hours \in LookbackHours : detectConsensusFails(hours)

---------------------------------------------------------------------------
(* The publisher: postTweet of src/publisher/poster.ts, over table tweets of  *)
(* src/shared/db.ts.  A call is cut at its awaits: the request to Twitter     *)
(* and, in the variant that tracks performance, performanceTracker.trackTweet. *)

\* the daily limit postTweet compares the count with (40 in the source)
maxTweetsPerDay == 2
\* number of postTweet calls explored
MaxPostCalls == 4

\* the 86400000 of getTweetCount24h
DayMs == 86400000
\* DEFAULT_CONFIG.minTweetIntervalMinutes
minTweetIntervalMinutes == 15

PosterCalls == {1, 2}

InitPoster(calls) ==
    /\ posters = calls
    /\ postedAt = <<>>
    /\ ppc = [c \in PosterCalls |-> "idle"]
    /\ presult = [c \in PosterCalls |-> "none"]
    /\ postCalls = 0

\* an empty table, and no call
PosterUnused == InitPoster({})

\* SELECT COUNT(*) FROM tweets WHERE postedAt > Date.now() - 86400000
getTweetCount24h ==
    Cardinality({i \in 1..Len(postedAt) : postedAt[i] > now - DayMs})

\* INSERT INTO tweets (content, tweetId, postedAt) VALUES (?, ?, Date.now())
saveTweet == Append(postedAt, now)

\* postTweet up to its first await; isSafe(content) is a function of the
\* content alone
postTweet(c, isSafe) ==
    /\ c \in posters
    /\ ppc[c] = "idle"
    /\ postCalls < MaxPostCalls
    /\ postCalls' = postCalls + 1
    /\ IF ~isSafe
          THEN /\ presult' = [presult EXCEPT ![c] = "false"]
               /\ UNCHANGED ppc
          ELSE IF getTweetCount24h >= maxTweetsPerDay
                  THEN /\ presult' = [presult EXCEPT ![c] = "false"]
                       /\ UNCHANGED ppc
                  ELSE /\ ppc' = [ppc EXCEPT ![c] = "tweeting"]
                       /\ presult' = [presult EXCEPT ![c] = "none"]
    /\ UNCHANGED <<posters, postedAt>>
    /\ UNCHANGED <<now, ticks, nonPosterVars>>

\* rwClient.v2.tweet resolves: Twitter has published the tweet, and the
\* continuation saves the row; with tracking it then awaits trackTweet
tweetResolves(c, tracked) ==
    /\ ppc[c] = "tweeting"
    /\ postedAt' = saveTweet
    /\ IF tracked
          THEN /\ ppc' = [ppc EXCEPT ![c] = "tracking"]
               /\ UNCHANGED presult
          ELSE /\ ppc' = [ppc EXCEPT ![c] = "idle"]
               /\ presult' = [presult EXCEPT ![c] = "true"]
    /\ UNCHANGED <<posters, postCalls>>
    /\ UNCHANGED <<now, ticks, nonPosterVars>>

\* rwClient.v2.tweet rejects: the catch block returns false
tweetRejects(c) ==
    /\ ppc[c] = "tweeting"
    /\ ppc' = [ppc EXCEPT ![c] = "idle"]
    /\ presult' = [presult EXCEPT ![c] = "false"]
    /\ UNCHANGED <<posters, postedAt, postCalls>>
    /\ UNCHANGED <<now, ticks, nonPosterVars>>

\* performanceTracker.trackTweet resolves: postTweet returns true
trackResolves(c) ==
    /\ ppc[c] = "tracking"
    /\ ppc' = [ppc EXCEPT ![c] = "idle"]
    /\ presult' = [presult EXCEPT ![c] = "true"]
    /\ UNCHANGED <<posters, postedAt, postCalls>>
    /\ UNCHANGED <<now, ticks, nonPosterVars>>

\* performanceTracker.trackTweet rejects: the catch block returns false, the
\* tweet stays published and saved
trackRejects(c) ==
    /\ ppc[c] = "tracking"
    /\ ppc' = [ppc EXCEPT ![c] = "idle"]
    /\ presult' = [presult EXCEPT ![c] = "false"]
    /\ UNCHANGED <<posters, postedAt, postCalls>>
    /\ UNCHANGED <<now, ticks, nonPosterVars>>

\* time passes, between calls or while a request is in flight
PosterDeltas == {MinuteMs, minTweetIntervalMinutes * MinuteMs, DayMs}

PosterTick ==
    /\ ticks < MaxTicks
    /\ \E d \in PosterDeltas : now' = now + d
    /\ ticks' = ticks + 1
    /\ UNCHANGED <<posterVars, nonPosterVars>>

NextPoster ==
    \/ \E c \in PosterCalls, isSafe \in BOOLEAN : postTweet(c, isSafe)
    \/ \E c \in PosterCalls, tracked \in BOOLEAN : tweetResolves(c, tracked)
    \/ \E c \in PosterCalls : tweetRejects(c)
    \/ \E c \in PosterCalls : trackResolves(c)
    \/ \E c \in PosterCalls : trackRejects(c)
    \/ PosterTick

---------------------------------------------------------------------------
(* The scheduled loops: MentionListener.pollMentions, TwitterListener.pollTweets, *)
(* MetricsScheduler.scheduleHourlyUpdates, and the cron task that              *)
(* DiscoveryScheduler.start registers.  A loop is cut at its awaits: the       *)
(* iteration's work, and the sleeps.  Only timers and I/O move a loop on, so   *)
(* its clock is left out.                                                      *)

\* loops (or cron tasks) of one component that are followed at once
MaxLoops == 2
\* batches of one pollTweets cycle (TRACKED_ACCOUNTS.length / batchSize)
NumBatches == 2

Pollers == {"MentionListener", "TwitterListener", "MetricsScheduler"}
Schedulers == {"DiscoveryScheduler"}
Loops == 1..MaxLoops

InitLoops(components) ==
    /\ poller \in components
    /\ isRunning = FALSE
    /\ loopPc = [l \in Loops |-> "none"]
    /\ batch = [l \in Loops |-> 0]
    /\ restarted = {}

\* no component constructed
LoopsUnused == InitLoops({"none"})

FreeLoops == {l \in Loops : loopPc[l] = "none"}

\* start(): returns at once when isRunning; else sets the flag and calls the
\* loop, which runs up to its first await (a poller), or registers a cron task
\* (DiscoveryScheduler)
start ==
    /\ poller # "none"
    /\ IF isRunning
       THEN UNCHANGED <<isRunning, loopPc>>
       ELSE /\ FreeLoops # {}
            /\ isRunning' = TRUE
            /\ LET l == CHOOSE k \in FreeLoops : \A j \in FreeLoops : k <= j
               IN loopPc' = [loopPc EXCEPT ![l] =
                      IF poller \in Schedulers THEN "sleeping" ELSE "running"]
    /\ UNCHANGED <<poller, batch, restarted>>
    /\ UNCHANGED <<now, ticks, nonLoopVars>>

\* stop(): clears the flag
stop ==
    /\ poller # "none"
    /\ isRunning' = FALSE
    /\ UNCHANGED <<poller, loopPc, batch, restarted>>
    /\ UNCHANGED <<now, ticks, nonLoopVars>>

\* the work of an iteration resolves: the loop sleeps its interval; pollTweets
\* sleeps between two batches without looking at the flag; a cron task waits
\* for the next tick
iterationResolves(l) ==
    /\ loopPc[l] = "running"
    /\ IF poller = "TwitterListener" /\ batch[l] + 1 < NumBatches
       THEN /\ loopPc' = [loopPc EXCEPT ![l] = "pausing"]
            /\ UNCHANGED batch
       ELSE /\ loopPc' = [loopPc EXCEPT ![l] = "sleeping"]
            /\ batch' = [batch EXCEPT ![l] = 0]
    /\ UNCHANGED <<poller, isRunning, restarted>>
    /\ UNCHANGED <<now, ticks, nonLoopVars>>

\* the work of an iteration throws: the catch block logs and sleeps the error
\* interval (a poller), or runDiscovery logs and the callback ends (cron task)
iterationRejects(l) ==
    /\ loopPc[l] = "running"
    /\ loopPc' = [loopPc EXCEPT ![l] = "recovering"]
    /\ batch' = [batch EXCEPT ![l] = 0]
    /\ restarted' = restarted \ {l}
    /\ UNCHANGED <<poller, isRunning>>
    /\ UNCHANGED <<now, ticks, nonLoopVars>>

\* the sleep between two batches ends: the next batch is fetched
batchWake(l) ==
    /\ loopPc[l] = "pausing"
    /\ loopPc' = [loopPc EXCEPT ![l] = "running"]
    /\ batch' = [batch EXCEPT ![l] = @ + 1]
    /\ UNCHANGED <<poller, isRunning, restarted>>
    /\ UNCHANGED <<now, ticks, nonLoopVars>>

\* a loop that ends after an iteration that threw (variant used to test C33)
wakeEndsAfterError(l) ==
    /\ poller \in Pollers
    /\ loopPc[l] \in {"sleeping", "recovering"}
    /\ loopPc' = [loopPc EXCEPT ![l] =
          IF isRunning /\ loopPc[l] = "sleeping" THEN "running" ELSE "none"]
    /\ UNCHANGED <<poller, isRunning, batch, restarted>>
    /\ UNCHANGED <<now, ticks, nonLoopVars>>

\* the sleep at the end of an iteration ends: `while (this.isRunning)` starts
\* the next iteration or ends the loop
wake(l) ==
    /\ poller \in Pollers
    /\ loopPc[l] \in {"sleeping", "recovering"}
    /\ loopPc' = [loopPc EXCEPT ![l] = IF isRunning THEN "running" ELSE "none"]
    /\ restarted' = IF isRunning /\ loopPc[l] = "recovering"
                    THEN restarted \cup {l} ELSE restarted
    /\ UNCHANGED <<poller, isRunning, batch>>
    /\ UNCHANGED <<now, ticks, nonLoopVars>>

\* 3am UTC: node-cron calls the callback of a registered task, which awaits
\* runDiscovery(); neither looks at isRunning
cronTick(l) ==
    /\ poller \in Schedulers
    /\ loopPc[l] \in {"sleeping", "recovering"}
    /\ loopPc' = [loopPc EXCEPT ![l] = "running"]
    /\ restarted' = IF loopPc[l] = "recovering" THEN restarted \cup {l} ELSE restarted
    /\ UNCHANGED <<poller, isRunning, batch>>
    /\ UNCHANGED <<now, ticks, nonLoopVars>>

NextLoops ==
    \/ start
    \/ stop
    \/ \E l \in Loops : iterationResolves(l)
    \/ \E l \in Loops : iterationRejects(l)
    \/ \E l \in Loops : batchWake(l)
    \/ \E l \in Loops : wake(l)
    \/ \E l \in Loops : cronTick(l)

\* what the event loop runs once it is due: the callbacks of setTimeout and
\* of node-cron
LoopTimers(l) == batchWake(l) \/ wake(l) \/ cronTick(l)

---------------------------------------------------------------------------
(* Narrative shifts: class NarrativeShifts, over the tweets of the topic     *)
(* (vectorDB.getTweetsByTopic) and table narrative_snapshots.  A snapshot is *)
(* kept as its timestamp and mentionCount; its sentiment shares and top      *)
(* accounts play no part in which rows are written or selected.              *)

\* detectShift calls explored
MaxShiftCalls == 3

\* daysLookback of the calls made
ShiftLookbackDays == {1}

\* the table as found: empty, or one snapshot captured an hour ago
SnapshotTables ==
    {<<>>, <<[timestamp |-> Epoch - HourMs, mentionCount |-> 1]>>}

InitShifts(tables) ==
    /\ snapshots \in tables
    /\ compared = 0
    /\ shiftCalls = 0

\* an empty table, and no call
ShiftsUnused == InitShifts({<<>>})

\* the row captureSnapshot inserts
captureSnapshot(tweets) == [timestamp |-> now, mentionCount |-> Len(tweets)]

\* table narrative_snapshots after captureSnapshot: null is returned for a
\* topic without tweets, before the insert
StoredBy(rows, tweets, inserted) ==
    IF tweets # <<>> /\ inserted THEN Append(rows, captureSnapshot(tweets)) ELSE rows

\* .lt('timestamp', Date.now() - daysLookback * 24 * 60 * 60 * 1000)
\* .order('timestamp', { ascending: false }).limit(1): the timestamp of the
\* row selected, 0 when there is none
PreviousSnapshot(rows, daysLookback) ==
    LET older == {k \in DOMAIN rows : rows[k].timestamp < now - daysLookback * DayMs}
    IN IF older = {} THEN 0
       ELSE rows[CHOOSE k \in older :
                    \A j \in older : rows[j].timestamp <= rows[k].timestamp].timestamp

\* detectShift(topic, daysLookback): captureSnapshot, then the select of the
\* previous snapshot; `inserted` is whether the insert reached the table
detectShift(daysLookback, inserted) ==
    /\ shiftCalls < MaxShiftCalls
    /\ shiftCalls' = shiftCalls + 1
    /\ snapshots' = StoredBy(snapshots, storedTweets, inserted)
    /\ compared' = IF storedTweets = <<>> THEN 0
                   ELSE PreviousSnapshot(snapshots', daysLookback)
    /\ UNCHANGED <<now, ticks, consensusVars, nonShiftVars>>

\* time passes between two calls
ShiftDeltas == {HourMs, DayMs}

ShiftTick ==
    /\ ticks < MaxTicks
    /\ \E d \in ShiftDeltas : now' = now + d
    /\ ticks' = ticks + 1
    /\ UNCHANGED <<shiftVars, consensusVars, nonShiftVars>>

\* the read paths called at any time
NextShifts ==
    \/ \E days \in ShiftLookbackDays, inserted \in BOOLEAN : detectShift(days, inserted)
    \/ \E hours \in LookbackHours : detectConsensus(hours)
    \/ ShiftTick


---------------------------------------------------------------------------
(* The clock *)

\* the clock advances, by a fixed step or up to the expiry of a pending timer
Deltas == {MinuteMs \div 2, MinuteMs, HourMs}

Tick ==
    /\ ticks < MaxTicks
    /\ \E t \in {now + d : d \in Deltas}
              \cup {ictx[p].wake : p \in {q \in Procs : ipc[q] # "idle"}}
              \cup {swake[p] : p \in Procs} :
          /\ t > now
          /\ now' = t
    /\ ticks' = ticks + 1
    /\ lastCheck' = NoCheck
    /\ UNCHANGED <<intelVars, sharedTimestamps, lastAlertTime, tokenUsage, spc, swake,
                   lastWarned, warnedTwice, slotReturn>>
    /\ UNCHANGED nonRateVars

InitClock ==
    /\ now = Epoch
    /\ ticks = 0

\* the rate-limit managers as constructed, with no task using them
RateUnused == InitIntel({}, {"none"}) /\ InitShared

InitSeq == InitClock /\ InitIntel({1}, Scenarios) /\ InitShared /\ InitLimiter /\ InitBreaker /\ RetryUnused /\ DiscoveryUnused /\ ConsensusUnused /\ PosterUnused /\ LoopsUnused /\ ShiftsUnused
InitConc == InitClock /\ InitIntel(Procs, Scenarios) /\ InitShared /\ InitLimiter /\ InitBreaker /\ RetryUnused /\ DiscoveryUnused /\ ConsensusUnused /\ PosterUnused /\ LoopsUnused /\ ShiftsUnused

NextRate == Tick \/ NextIntel \/ NextShared

\* the rate-limit managers used by one caller at a time
SpecSeq == InitSeq /\ [][NextRate]_vars

\* the rate-limit managers used by concurrent tasks
SpecConc == InitConc /\ [][NextRate]_vars

InitLimiterSpec == InitClock /\ RateUnused /\ InitLimiter /\ InitBreaker /\ RetryUnused /\ DiscoveryUnused /\ ConsensusUnused /\ PosterUnused /\ LoopsUnused /\ ShiftsUnused

\* the LLM RateLimiter used by concurrent tasks
SpecLimiter == InitLimiterSpec /\ [][NextLimiter]_vars

InitBreakerSpec == InitClock /\ RateUnused /\ InitLimiter /\ InitBreaker /\ RetryUnused /\ DiscoveryUnused /\ ConsensusUnused /\ PosterUnused /\ LoopsUnused /\ ShiftsUnused

\* one circuit breaker used by concurrent tasks
SpecBreaker == InitBreakerSpec /\ [][NextBreaker]_vars

InitRetrySpec ==
    /\ InitClock /\ RateUnused /\ InitLimiter /\ InitBreaker /\ DiscoveryUnused
    /\ ConsensusUnused /\ PosterUnused /\ LoopsUnused /\ ShiftsUnused
    /\ InitRetry(Impls, Policies, {1}, {1})

\* one executeWithRetry call under every policy
SpecRetry == InitRetrySpec /\ [][NextRetry]_vars

InitBatchSpec ==
    /\ InitClock /\ RateUnused /\ InitLimiter /\ InitBreaker /\ DiscoveryUnused
    /\ ConsensusUnused /\ PosterUnused /\ LoopsUnused /\ ShiftsUnused
    /\ InitRetry(Impls, {BatchPolicy}, 0..MaxItems, 1..MaxConcurrency)

\* one executeBatch call
SpecBatch == InitBatchSpec /\ [][NextRetry]_vars

\* what the event loop runs once it is due: the continuations of the batch and
\* the callbacks of setTimeout (the timeout of the race, the end of a sleep);
\* when, and whether, an operation settles is up to its environment
RetryScheduled ==
    \/ executeBatch
    \/ batchNextChunk
    \/ \E i \in Items : opTimesOut(i)
    \/ \E i \in Items : retryWake(i)

\* one executeWithRetry call, every due timer firing
SpecRetryFair == SpecRetry /\ WF_vars(RetryScheduled)

InitDiscoverySpec ==
    /\ InitClock /\ RateUnused /\ InitLimiter /\ InitBreaker /\ RetryUnused
    /\ ConsensusUnused /\ PosterUnused /\ LoopsUnused /\ ShiftsUnused
    /\ InitDiscovery({1}, {"TECHNICAL"})

\* discovery cycles run one after another, with operator calls in between
SpecDiscovery == InitDiscoverySpec /\ [][NextDiscovery]_vars

InitOracleSpec ==
    /\ InitClock /\ RateUnused /\ InitLimiter /\ InitBreaker /\ RetryUnused
    /\ ConsensusUnused /\ PosterUnused /\ LoopsUnused /\ ShiftsUnused
    /\ InitDiscovery({1}, OracleReplies)

\* the steps of the cycles, without operator calls
NextCycles ==
    \/ \E r \in Runners :
          \/ runDiscovery(r)
          \/ discoveryFails(r)
          \/ findMentionedAccounts(r)
          \/ mergeCandidates(r)
          \/ pruneCandidates(r)
          \/ autoApproveConfirmed(r)
    \/ \E r \in Runners, h \in Handles : scoreCandidate(r, h)
    \/ DiscoveryTick

InitOverlapSpec ==
    /\ InitClock /\ RateUnused /\ InitLimiter /\ InitBreaker /\ RetryUnused
    /\ ConsensusUnused /\ PosterUnused /\ LoopsUnused /\ ShiftsUnused
    /\ InitDiscovery({1, 2}, {"TECHNICAL"})

\* discovery cycles from two sources: the callback of the cron task (1), and
\* triggerNow or the callback of a second registered task (2)
SpecOverlap == InitOverlapSpec /\ [][NextCycles]_vars

\* discovery cycles whose classification requests succeed, answer with another
\* label, or fail
SpecOracle == InitOracleSpec /\ [][NextCycles]_vars

InitConsensusSpec ==
    /\ InitClock /\ RateUnused /\ InitLimiter /\ InitBreaker /\ RetryUnused
    /\ DiscoveryUnused /\ PosterUnused /\ LoopsUnused /\ ShiftsUnused
    /\ InitConsensus([ConsensusHandles -> PostingKinds], CredibilityProfiles)

\* detectConsensus called on every store of the postings tried
SpecConsensus == InitConsensusSpec /\ [][NextConsensus]_vars

InitPosterSpec ==
    /\ InitClock /\ RateUnused /\ InitLimiter /\ InitBreaker /\ RetryUnused
    /\ DiscoveryUnused /\ ConsensusUnused /\ LoopsUnused /\ ShiftsUnused
    /\ InitPoster(PosterCalls)

\* postTweet calls that may overlap
SpecPoster == InitPosterSpec /\ [][NextPoster]_vars

InitLoopsSpec ==
    /\ InitClock /\ RateUnused /\ InitLimiter /\ InitBreaker /\ RetryUnused
    /\ DiscoveryUnused /\ ConsensusUnused /\ PosterUnused /\ ShiftsUnused
    /\ InitLoops(Pollers \cup Schedulers)

\* start() and stop() called at any time on one of the components
SpecLoops == InitLoopsSpec /\ [][NextLoops]_vars

\* the same, every due timer and cron tick firing
SpecLoopsFair == SpecLoops /\ \A l \in Loops : WF_vars(LoopTimers(l))

InitShiftSpec ==
    /\ InitClock /\ RateUnused /\ InitLimiter /\ InitBreaker /\ RetryUnused
    /\ DiscoveryUnused /\ PosterUnused /\ LoopsUnused
    /\ InitConsensus({[h \in ConsensusHandles |-> "none"],
                      [h \in ConsensusHandles |-> "once"]},
                     {[h \in ConsensusHandles |-> DefaultCredibility]})
    /\ InitShifts(SnapshotTables)

\* detectShift and detectConsensus called at any time, and nothing else
SpecShift == InitShiftSpec /\ [][NextShifts]_vars

InitPosterSeqSpec ==
    /\ InitClock /\ RateUnused /\ InitLimiter /\ InitBreaker /\ RetryUnused
    /\ DiscoveryUnused /\ ConsensusUnused /\ LoopsUnused /\ ShiftsUnused
    /\ InitPoster({1})

\* postTweet calls made one after another
SpecPosterSeq == InitPosterSeqSpec /\ [][NextPoster]_vars

---------------------------------------------------------------------------
(* Properties of the rate-limit managers *)

\* every admission of hist has at most limit admissions in the window ending at it
WithinLimit(hist, windowMs, limit) ==
    \A i \in DOMAIN hist : CountIn(hist, hist[i], windowMs) <= limit

\* the timestamp list stored under a key, of either manager
StoredList(key) ==
    IF key \in IntelKeys THEN callTimestamps[key] ELSE sharedTimestamps[key]

\* C1: with one caller at a time, the calls the intelligence manager admitted
\* for a resource inside any single window (60 s per-minute, 1 h hourly)
\* never number more than that window's limit.
C1_WindowLimit ==
    \A res \in Resources : \A w \in Windows(res) :
        WithinLimit(admitted[res], w[1], w[2])

\* C2: a waitFor*Slot call that began while a window held `limit` admitted
\* calls does not return before the oldest of them has aged out of the
\* window, and a call that began with spare capacity returns without sleeping.
C2_FullWindowWaits ==
    lastReturn.res # "none" =>
        /\ lastReturn.ret >= lastReturn.ageOut
        /\ (lastReturn.ageOut = 0 => ~lastReturn.slept)

\* C3: whenever the shared waitForAnthropicSlot returns, fewer than
\* callsPerMinute calls are recorded within the last 60 s and fewer than
\* callsPerHour within the last hour.
C3_SlotHasCapacity ==
    slotReturn.returned =>
        /\ slotReturn.min < SharedCallsPerMinute
        /\ slotReturn.hour < SharedCallsPerHour

\* C4: under concurrent tasks on one resource key (waitForOpenAISlot calls,
\* canReply-then-recordReply sequences) the calls admitted within one window
\* never number more than the configured limit.
C4_ConcurrentWindowLimit ==
    /\ WithinLimit(admitted["openai"], MinuteMs, OpenAICallsPerMinute)
    /\ WithinLimit(sharedTimestamps[RepliesKey], HourMs, RepliesPerHour)

\* C5: right after a capacity check on a key, the list stored under the key
\* holds no timestamp t with now - t >= windowMs.
C5_SelfCleaning ==
    lastCheck.key # "none" =>
        \A i \in DOMAIN StoredList(lastCheck.key) :
            now - StoredList(lastCheck.key)[i] < lastCheck.windowMs

\* C6: for each resource key at most one rate-limit warning is logged in any
\* rolling 60-second interval.
C6_OneWarningPerMinute == warnedTwice = {}

---------------------------------------------------------------------------
(* Properties of the LLM RateLimiter *)

\* C7: the LLM RateLimiter is a hard cap of 10 calls per hour: no interval of
\* 3600000 ms contains more than 10 returns of waitForSlot.
C7_HardCapPerHour == WithinLimit(slotTimes, HourMs, MAX_CALLS_PER_HOUR)

---------------------------------------------------------------------------
(* Properties of the circuit breaker *)

\* C8: a closed breaker moves to open exactly when the number of consecutive
\* failed calls reaches failureThreshold, and never earlier.
C8_OpensOnConsecutiveFailures ==
    [][/\ (state = "closed" /\ state' = "open") => consecutive' >= failureThreshold
       /\ (state = "closed" /\ consecutive' > consecutive
                            /\ consecutive' >= failureThreshold) => state' = "open"]_vars

\* an execute call that task p makes in this step
Calls(p) == event' = [op |-> "execute", proc |-> p]

\* the reset timeout has not elapsed since lastFailureTime
NotYetElapsed == now - lastFailureTime < resetTimeoutMs

\* C9: while the breaker is open and the reset timeout has not elapsed, every
\* execute call returns null without invoking the operation, without throwing
\* and without changing state, failureCount or lastFailureTime.
C9_OpenRejectsWithoutCalling ==
    [][\A p \in Procs :
         (Calls(p) /\ state = "open" /\ NotYetElapsed) =>
             /\ outcome'[p] = "null"
             /\ bpc'[p] = "idle"
             /\ UNCHANGED <<state, failureCount, lastFailureTime>>]_vars

\* C9 witness: a call has just been rejected by the open breaker
C9_Witness ==
    /\ event.op = "execute"
    /\ state = "open"
    /\ NotYetElapsed
    /\ outcome[event.proc] = "null"
    /\ bpc[event.proc] = "idle"

\* C10: once the breaker has gone half-open, at most one underlying operation
\* is started until that trial's outcome closes or reopens the breaker.
C10_OneTrialCall == trialOps <= 1

\* C11: in half-open state a successful trial closes the breaker with
\* failureCount = 0, and a failed trial reopens it with lastFailureTime set to
\* the time of that failure, so that the next operation is started from open
\* only after a full resetTimeoutMs has elapsed again.
C11_TrialOutcome ==
    /\ (event.op = "resolve" /\ prevState = "half-open") =>
           (state = "closed" /\ failureCount = 0)
    /\ (event.op = "reject" /\ prevState = "half-open") =>
           (state = "open" /\ lastFailureTime = now)
    /\ (event.op = "execute" /\ prevState = "open" /\ bpc[event.proc] = "running") =>
           now - lastFailureTime > resetTimeoutMs

\* C11 witness: a trial call has just failed and reopened the breaker
C11_Witness ==
    /\ event.op = "reject"
    /\ prevState = "half-open"
    /\ state = "open"
    /\ lastFailureTime = now
    /\ lastFailureTime > Epoch + resetTimeoutMs

\* the state changes that execute may make
BreakerEdges ==
    {<<"closed", "open">>, <<"open", "half-open">>,
     <<"half-open", "closed">>, <<"half-open", "open">>}

\* C28: the breaker's state changes only along closed->open, open->half-open,
\* half-open->closed and half-open->open, or to closed by reset(); under every
\* interleaving of concurrent execute calls it never goes from open to closed
\* through execute, and it enters half-open only from open and only when more
\* than resetTimeoutMs has passed since lastFailureTime.
C28_BreakerTransitions ==
    [][state' # state =>
          /\ \/ event'.op = "reset" /\ state' = "closed"
             \/ event'.op # "reset" /\ <<state, state'>> \in BreakerEdges
          /\ state' = "half-open" =>
                 /\ state = "open"
                 /\ event'.op = "execute"
                 /\ now - lastFailureTime > resetTimeoutMs]_vars

\* C28 witness: a success has just closed the half-open breaker while a
\* concurrent call is still running
C28_Witness ==
    /\ event.op = "resolve"
    /\ prevState = "half-open"
    /\ state = "closed"
    /\ \E p \in Procs : bpc[p] = "running"

\* C40: whenever the breaker is closed, its failure count is below the
\* failure threshold, under any interleaving of execute calls and reset().
C40_ClosedBelowThreshold ==
    state = "closed" => failureCount < failureThreshold

\* the breaker is closed one failure short of the threshold after a failure of
\* one call, while another call is still running
C40_Witness ==
    /\ state = "closed"
    /\ failureCount = failureThreshold - 1
    /\ event.op = "reject"
    /\ \E p \in Procs : bpc[p] = "running"

---------------------------------------------------------------------------
(* Properties of the retry handlers *)

\* how often executeWithRetry of item i has invoked its operation
Invocations(i) == Len(outcomes[i]) + IF rpc[i] = "attempt" THEN 1 ELSE 0

\* every attempt item i has made so far failed
AllFailed(i) == \A k \in DOMAIN outcomes[i] : outcomes[i][k] # "ok"

\* the retries of item i were exhausted
Exhausted(i) ==
    rpc[i] = "done" /\ AllFailed(i) /\ Len(outcomes[i]) = policy.maxAttempts

\* C12: executeWithRetry never throws; it invokes the operation at most
\* maxAttempts times, returns the first successful result without a further
\* attempt, and returns null when every attempt failed.
C12_RetryNeverThrows ==
    \A i \in Items :
        /\ Invocations(i) <= policy.maxAttempts
        /\ rpc[i] = "done" => result[i] \in {"result", "null"}
        /\ \A k \in DOMAIN outcomes[i] :
               outcomes[i][k] = "ok" =>
                   /\ k = Len(outcomes[i])
                   /\ rpc[i] = "done"
                   /\ result[i] = "result"
        /\ (rpc[i] = "done" /\ AllFailed(i)) =>
               (result[i] = "null" /\ Len(outcomes[i]) = policy.maxAttempts)

\* C12 witness: a call has returned null after all of its several attempts failed
C12_Witness ==
    \E i \in Items :
        /\ policy.maxAttempts >= 2
        /\ Exhausted(i)
        /\ result[i] = "null"

\* C13: with multiplier > 1 the delays of one call, jitter taken as zero, are
\* non-decreasing, and no delay slept, whatever its jitter, exceeds maxDelayMs.
C13_DelaysGrowAndAreCapped ==
    /\ policy.backoffMultiplier > 1 => decreased = {}
    /\ overMax = {}

\* C13 witness: a second delay is being slept that maxDelayMs cut short
C13_Witness ==
    \E i \in Items :
        /\ rpc[i] = "sleep"
        /\ attempt[i] >= 2
        /\ i \in capped
        /\ nominal[i] = policy.maxDelayMs

\* C14: executeBatch attempts every item, does not throw, and returns counts
\* with succeeded + failed = items.length and failed = the number of items
\* whose retries were exhausted.
C14_BatchIsolatesFailures ==
    bstate = "returned" =>
        /\ \A i \in 1..nItems : rpc[i] = "done" /\ Invocations(i) >= 1
        /\ succeeded + failed = nItems
        /\ failed = Cardinality({i \in 1..nItems : Exhausted(i)})

\* C14 witness: a batch of several chunks has returned with items of both kinds
C14_Witness ==
    /\ bstate = "returned"
    /\ nItems > concurrency
    /\ concurrency > 1
    /\ failed >= 1
    /\ succeeded >= 1

\* operations started and not yet settled
RECURSIVE InFlightUpTo(_)
InFlightUpTo(n) == IF n = 0 THEN 0 ELSE Cardinality(pending[n]) + InFlightUpTo(n - 1)

\* C15: during RetryHandler.executeBatch at most `concurrency` operations
\* are started and not yet settled, also when attempts time out.
C15_BoundedInFlight ==
    impl = "RetryHandler" => InFlightUpTo(MaxItems) <= concurrency

\* C16: within one executeWithRetry call the operation of attempt k+1 is not
\* started before the operation of attempt k has settled.
C16_AttemptsNeverOverlap ==
    \A i \in Items : Cardinality(pending[i]) <= 1

\* no operation that call i started has settled
NeverSettles(i) ==
    /\ \A k \in DOMAIN outcomes[i] : outcomes[i][k] = "timeout"
    /\ pending[i] = 1..Invocations(i)

\* C25: in RetryHandler.executeWithRetry an attempt that outlasts timeoutMs
\* is a failed attempt that uses up one of the maxAttempts: while no operation
\* settles the call invokes the operation exactly maxAttempts times, and it
\* then returns null.
C25_TimeoutConsumesAttempt ==
    /\ [](\A i \in Items :
            (impl = "RetryHandler" /\ NeverSettles(i)) =>
                /\ Invocations(i) <= policy.maxAttempts
                /\ rpc[i] = "done" =>
                       (Invocations(i) = policy.maxAttempts /\ result[i] = "null"))
    /\ <>(impl = "RetryHandler" => rpc[1] = "done")

\* C25 witness: a call has returned null after each of its several operations
\* outlasted the timeout, none of them having settled
C25_Witness ==
    /\ impl = "RetryHandler"
    /\ policy.maxAttempts >= 2
    /\ rpc[1] = "done"
    /\ NeverSettles(1)
    /\ result[1] = "null"
    /\ Cardinality(pending[1]) = policy.maxAttempts

\* C27: every delay slept between two attempts of executeWithRetry is at
\* least 100 ms, under every policy and jitter.
C27_DelayAtLeastMinimum == underMin = {}

\* C26: ErrorRecovery.executeWithRetry eventually returns, whatever the
\* operation does, also when the operation's promise never settles.
C26_ErrorRecoveryTerminates == <>(impl = "ErrorRecovery" => rpc[1] = "done")

---------------------------------------------------------------------------
(* Properties of consensus detection *)

\* the accounts with a record on theme inside the window of the last call
DistinctAccounts(theme) ==
    {storedTweets[k].handle : k \in
        {n \in DOMAIN storedTweets :
            /\ storedTweets[n].timestamp > now - lookback * HourMs
            /\ \E m \in DOMAIN storedTweets[n].topics :
                  storedTweets[n].topics[m] = theme}}

\* the records on theme inside the window of the last call
RecordsOn(theme) ==
    {n \in DOMAIN storedTweets :
        /\ storedTweets[n].timestamp > now - lookback * HourMs
        /\ \E m \in DOMAIN storedTweets[n].topics : storedTweets[n].topics[m] = theme}

SignalsFor(theme) == {k \in DOMAIN signals : signals[k].narrative = theme}

\* C21: detectConsensus emits a signal for a topic only when at least 5
\* distinct identities have an in-window record for it; accountCount is the
\* number of distinct handles, however many records each contributed, and
\* with 4 or fewer distinct identities there is no signal.
C21_ConsensusNeedsFiveAccounts ==
    lookback > 0 =>
        \A theme \in Themes :
            /\ \A k \in SignalsFor(theme) :
                  /\ Cardinality(DistinctAccounts(theme)) >= 5
                  /\ signals[k].accountCount = Cardinality(DistinctAccounts(theme))
                  /\ Len(signals[k].accountsAgreeing) = signals[k].accountCount
                  /\ {signals[k].accountsAgreeing[m] :
                         m \in DOMAIN signals[k].accountsAgreeing} = DistinctAccounts(theme)
            /\ Cardinality(DistinctAccounts(theme)) <= 4 => SignalsFor(theme) = {}
            /\ Cardinality(SignalsFor(theme)) <= 1

\* C21 witness: a signal over exactly 5 accounts that contributed more than 5
\* records, a sixth account's record lying just outside the window, and no
\* signal for a theme that 4 accounts tweeted about
C21_Witness ==
    /\ lookback = 1
    /\ \E k \in SignalsFor("l2") : signals[k].accountCount = 5
    /\ Cardinality(RecordsOn("l2")) > 5
    /\ \E n \in DOMAIN storedTweets : storedTweets[n].timestamp = now - lookback * HourMs
    /\ Cardinality(DistinctAccounts("defi")) = 4
    /\ SignalsFor("defi") = {}

\* C22: a consensus signal over 6 distinct identities whose average
\* credibility is 80 has confidence HIGH.
C22_Average80IsHigh ==
    \A k \in DOMAIN signals :
        (signals[k].accountCount = 6 /\ signals[k].credibilitySum = 80 * 6)
        => signals[k].confidence = "HIGH"

\* the records on theme in the first half of the window of the last call,
\* [now - window, now - window / 2]
WindowFirstHalf(theme) ==
    {n \in RecordsOn(theme) : 2 * storedTweets[n].timestamp <= 2 * now - lookback * HourMs}

\* the records on theme in the second half of the window of the last call
WindowSecondHalf(theme) == RecordsOn(theme) \ WindowFirstHalf(theme)

\* C36: the momentum of a signal compares the record counts of the two halves
\* of the lookback window [now - window, now], split at its midpoint:
\* increasing iff c2 > 1.2 * c1, decreasing iff c2 < 0.8 * c1, else stable.
C36_MomentumSplitsWindow ==
    \A k \in DOMAIN signals :
        signals[k].momentum =
            Momentum(Cardinality(WindowFirstHalf(signals[k].narrative)),
                     Cardinality(WindowSecondHalf(signals[k].narrative)))

\* C37: for every signal, firstMentioned <= t <= lastMentioned for the
\* timestamp t of every record counted in it, whatever the retrieval order.
C37_MentionsWithinBounds ==
    \A k \in DOMAIN signals :
        \A n \in RecordsOn(signals[k].narrative) :
            /\ signals[k].firstMentioned <= storedTweets[n].timestamp
            /\ storedTweets[n].timestamp <= signals[k].lastMentioned

\* C35: detectShift and detectConsensus are read paths: no call of either
\* changes the record store (the observation records and the persisted
\* narrative snapshots).
C35_ReadPathsLeaveStore ==
    [][snapshots' = snapshots /\ storedTweets' = storedTweets]_vars

---------------------------------------------------------------------------
(* Properties of the publisher *)

\* the tweets published in the 24 hours that end with the tweet of row i,
\* counted as getTweetCount24h counts them
PostedInDayUpTo(i) ==
    {j \in 1..Len(postedAt) :
        postedAt[j] > postedAt[i] - DayMs /\ postedAt[j] <= postedAt[i]}

\* C23: in any 24-hour window, the number of tweets postTweet has posted is
\* at most the daily limit, also when postTweet calls overlap in time.
C23_DailyLimitHolds ==
    \A i \in 1..Len(postedAt) : Cardinality(PostedInDayUpTo(i)) <= maxTweetsPerDay

\* C24: any two tweets postTweet has posted are at least 15 minutes apart.
C24_FifteenMinutesApart ==
    \A i, j \in 1..Len(postedAt) :
        i < j => postedAt[j] - postedAt[i] >= minTweetIntervalMinutes * MinuteMs

---------------------------------------------------------------------------
(* Properties of the scheduled loops *)

\* C33: a scheduled loop never stops for good because of an exception: after
\* an iteration or cycle that threw, a later one is eventually started, unless
\* the running flag is cleared in between.
C33_LoopSurvivesException ==
    \A l \in Loops :
        (loopPc[l] = "recovering") ~> (loopPc[l] = "running" \/ ~isRunning)

\* a loop has started an iteration after one that threw, the flag still set
C33_Witness ==
    \E l \in Loops : l \in restarted /\ loopPc[l] = "running" /\ isRunning

\* C34: once DiscoveryScheduler.stop() has been called and start() is not
\* called again, the schedule starts no further discovery cycle.
C34_NoCycleAfterStop ==
    [][(poller \in Schedulers /\ ~isRunning /\ ~isRunning')
       => \A l \in Loops : ~(loopPc[l] # "running" /\ loopPc'[l] = "running")]_vars

\* the loops of a component that go on looping: a loop that finds the flag
\* cleared when it wakes up ends
LiveLoops == {l \in Loops : loopPc[l] # "none" /\ isRunning}

\* C38: after any start() and stop() calls, at most one polling loop of a
\* polling component is active.
C38_OnePollingLoop ==
    poller \in Pollers => Cardinality(LiveLoops) <= 1

---------------------------------------------------------------------------
(* Properties of account discovery *)

\* the cycle that first stored a candidate for h (0: none has)
FirstDiscovered(h) ==
    IF keptIn[h] = {} THEN 0
    ELSE CHOOSE c \in keptIn[h] : \A d \in keptIn[h] : c <= d

\* the step of cycle runner r that runs autoApproveConfirmed
AutoApproveStep(r) == dpc[r] = "approve" /\ dpc'[r] = "idle"

\* C17: autoApproveConfirmed changes a status to approved only if the
\* candidate's confirmationCount is at least confirmationRunsNeeded at that
\* moment, and never in the cycle that first discovered the candidate.
C17_AutoApproveOnlyConfirmed ==
    [][\A r \in Runners, h \in Handles :
          (/\ AutoApproveStep(r)
           /\ candidates[h].status # "approved"
           /\ candidates'[h].status = "approved")
          => /\ candidates[h].confirmationCount >= confirmationRunsNeeded
             /\ candidates'[h].confirmationCount >= confirmationRunsNeeded
             /\ FirstDiscovered(h) # cyc[r]]_vars

\* C17 witness: autoApproveConfirmed has just approved a candidate that an
\* earlier cycle discovered and this cycle confirmed
C17_Witness ==
    \E h \in autoApproved :
        /\ \A r \in Runners : dpc[r] = "idle"
        /\ candidates[h].status = "approved"
        /\ candidates[h].confirmationCount = confirmationRunsNeeded
        /\ FirstDiscovered(h) < cyclesStarted
        /\ cyclesStarted \in keptIn[h]

\* statuses of a candidate that is proposed or tracked
Live == {"suggested", "approved"}

\* C18: once rejectAccount has rejected a candidate, the discovery cycles
\* that start afterwards, prune steps included, never set its status to
\* suggested or approved again.
C18_RejectedStaysRejected ==
    [][\A h \in Handles :
          (/\ rejection[h] = "settled"
           /\ rejection'[h] = "settled"
           /\ candidates[h].status \notin Live)
          => candidates'[h].status \notin Live]_vars

\* the step of cycle runner r that runs pruneCandidates
PruneStep(r) == dpc[r] = "prune" /\ dpc'[r] = "approve"

\* now - lastSeen of a stored candidate
Age(h) == now - candidates[h].lastSeen

\* C19: the prune step of a cycle leaves a stored candidate pruned if and
\* only if now - lastSeen > decayWindow then (exactly decayWindow old: not
\* pruned), and no other step sets a status to pruned.
C19_PrunedIffOlderThanWindow ==
    [][\A h \in Handles :
          IF \E r \in Runners : PruneStep(r)
          THEN Stored(h) =>
                  (candidates'[h].status = "pruned" <=> Age(h) > decayDays * 86400000)
          ELSE candidates'[h].status = "pruned" => candidates[h].status = "pruned"]_vars

\* C19 witness: a prune step has just spared a candidate exactly decayWindow
\* old, next to one that an earlier prune step pruned
C19_Witness ==
    \E r \in Runners, h, g \in Handles :
        /\ dpc[r] = "approve"
        /\ candidates[h].status = "suggested"
        /\ Age(h) = decayDays * 86400000
        /\ candidates[g].status = "pruned"
        /\ Age(g) > decayDays * 86400000

\* what the example of two confirming cycles says of the cycles in `seen`:
\* at the step that completes a runDiscovery, and of the count between cycles
TwoCycleExample(seen) ==
    \A r \in Runners, h \in Handles :
        /\ (AutoApproveStep(r) /\ cyc[r] = 1 /\ 1 \in seen[h]) =>
               /\ candidates'[h].status = "suggested"
               /\ candidates'[h].confirmationCount = 1
        /\ (AutoApproveStep(r) /\ cyc[r] = 2 /\ {1, 2} \subseteq seen[h]) =>
               /\ candidates'[h].status = "approved"
               /\ candidates'[h].confirmationCount = 2
        /\ (\A q \in Runners : dpc[q] = "idle") =>
               candidates[h].confirmationCount = Cardinality(seen[h])
        /\ (\A q \in Runners : dpc'[q] = "idle") =>
               candidates'[h].confirmationCount = Cardinality(seen'[h])

\* C20 as stated, an identity being kept when its score is at or above the
\* threshold: kept in cycle 1 it is suggested with confirmationCount 1 after
\* the cycle, kept again in cycle 2 it is approved with confirmationCount 2
\* when that runDiscovery completes, and the count grows by one per such cycle.
C20_AboveThresholdIsConfirmed == [][TwoCycleExample(aboveIn)]_vars

\* C20, an identity being kept when it is in the list scoreAccountCandidates
\* returns (at or above the threshold and among the maxNewAccountsPerCycle
\* best of the cycle): kept in cycle 1 it is suggested with confirmationCount
\* 1 after the cycle, kept again in cycle 2 it is approved with
\* confirmationCount 2 when that runDiscovery completes, and the count grows
\* by one per such cycle.
C20_KeptIsConfirmed == [][TwoCycleExample(keptIn)]_vars

\* C20 witness: the second cycle has completed and approved a handle it kept
\* for the second time, while the cap left out another handle at the threshold
C20_Witness ==
    \E h, g \in Handles :
        /\ \A r \in Runners : dpc[r] = "idle"
        /\ cyclesStarted = 2
        /\ keptIn[h] = {1, 2}
        /\ h \in autoApproved
        /\ candidates[h].status = "approved"
        /\ candidates[h].confirmationCount = 2
        /\ aboveIn[g] # {}
        /\ keptIn[g] = {}

\* C29: once approveAccount(h) has succeeded, no automatic step (merge,
\* auto-promote, prune) of a cycle that starts afterwards changes the status
\* of h away from approved.
C29_ApprovedStaysApproved ==
    [][\A h \in Handles :
          (/\ approval[h] = "settled"
           /\ approval'[h] = "settled"
           /\ candidates[h].status = "approved")
          => candidates'[h].status = "approved"]_vars

\* the step of cycle runner r that merges the returned candidates
MergeStep(r) == dpc[r] = "score" /\ dpc'[r] = "prune"

\* C30: a rejectAccount(h) issued while a cycle is in progress, after the
\* cycle's rejected-check for h and before its merge, is not lost: neither the
\* merge nor the auto-approval of that cycle changes the rejected status.
C30_RejectDuringCycleKept ==
    [][\A r \in Runners, h \in Handles :
          (/\ MergeStep(r) \/ AutoApproveStep(r)
           /\ rejection[h] = "fresh"
           /\ candidates[h].status = "rejected")
          => candidates'[h].status = "rejected"]_vars

\* C31: when the classification fails or answers with a label outside the
\* fixed set for a kept identity, the merge still stores the identity, with
\* category NARRATIVE; and every stored candidate's category is one of the
\* four labels.
C31_OracleFailureFallsBack ==
    /\ [](\A h \in Handles : Stored(h) => candidates[h].category \in Categories)
    /\ [][\A r \in Runners, h \in Handles :
            (/\ MergeStep(r)
             /\ h \in KeptHandles(r)
             /\ \/ KeptEntry(r, h).reply = "throws"
                \/ TrimUpper(KeptEntry(r, h).reply) \notin Categories)
            => /\ candidates'[h].status = "suggested"
               /\ candidates'[h].category = "NARRATIVE"]_vars

\* a candidate stored with the fallback category, next to one the oracle
\* labelled
C31_Witness ==
    \E h, g \in Handles :
        /\ candidates[h].status = "suggested"
        /\ candidates[h].category = "NARRATIVE"
        /\ Stored(g)
        /\ candidates[g].category = "TECHNICAL"

\* the step of cycle r that looks at one gathered identity, or several
ScoreStep(r) == dpc[r] = "score" /\ mentionCounts'[r] # mentionCounts[r]

\* C32: a failure while fetching or scoring one identity does not abort the
\* cycle: the failed iteration takes only its own identity off the list, the
\* cycle goes on scoring, it merges only once every gathered identity has been
\* looked at, every kept identity is merged, and the prune step still runs.
C32_FailureDoesNotAbortCycle ==
    [][\A r \in Runners :
          /\ (dpc[r] = "score" /\ threw'[r])
             => /\ dpc'[r] \in {"score", "prune"}
                /\ ScoreStep(r)
                   => Cardinality({g \in Handles : /\ mentionCounts[r][g] > 0
                                                  /\ mentionCounts'[r][g] = 0}) = 1
                /\ MergeStep(r)
                   => /\ \A g \in Handles : mentionCounts[r][g] = 0
                      /\ \A h \in KeptHandles(r) :
                            /\ candidates'[h].status = "suggested"
                            /\ candidates'[h].lastSeen = KeptEntry(r, h).lastSeen
          /\ (dpc[r] = "prune" /\ threw[r])
             => /\ dpc'[r] = "approve"
                /\ \A h \in Handles :
                      (Stored(h) /\ PruneDue(candidates[h]))
                      => candidates'[h].status = "pruned"]_vars

\* a cycle in which the iteration of one identity threw has merged another
\* identity gathered with it and reached its prune step
C32_Witness ==
    \E r \in Runners, h \in Handles :
        /\ threw[r]
        /\ dpc[r] = "prune"
        /\ cyc[r] \in keptIn[h]
        /\ candidates[h].status = "suggested"

\* the cycles in progress
CyclesInProgress == {r \in Runners : dpc[r] # "idle"}

\* C39: at most one discovery cycle is in progress at any time, so no
\* candidate's confirmationCount is incremented by two cycles that ran
\* concurrently.
C39_OneCycleAtATime == Cardinality(CyclesInProgress) <= 1

====
